---- MODULE Spec2Model ----
(***************************************************************************)
(* The left panel of react-pdf-highlighter-plus as state machines: the     *)
(* useThumbnails hook (src/hooks/useThumbnails.ts), the ThumbnailPanel     *)
(* with its ThumbnailItems (src/components/leftpanel) and the              *)
(* useDocumentOutline hook (src/hooks/useDocumentOutline.ts), and the      *)
(* conversion between viewport and scaled coordinates (lib/coordinates).   *)
(*                                                                         *)
(* For the thumbnail hook,                                                 *)
(* one action is one JavaScript task: a call of the hook's public API, the *)
(* settlement of one page rasterization (the continuation of               *)
(* renderThumbnail followed by the .finally reaction of processQueue; the  *)
(* two microtasks touch disjoint refs of any other settling render, so     *)
(* they are taken together), the firing of the 50 ms flush timer together  *)
(* with the state updater it hands to setThumbnails, and the unmount       *)
(* cleanup.                                                                *)
(***************************************************************************)
EXTENDS Integers, Sequences, FiniteSets, TLC

\* ---------------------------------------------------------------- bounds
\* Largest number of pages of the document (pdfDocument.numPages).
MaxPages == 4
\* Largest value of the cacheSize option explored.
MaxCacheSize == 2
\* Number of render tasks loadThumbnail may enqueue in one behaviour.
MaxRequests == 4
\* Number of clearCache calls in one behaviour.
MaxClears == 1
\* Largest cacheSize explored in the sequential-load scenario.
MaxSeqCacheSize == 2

\* Largest totalPages prop of the thumbnail panel.
MaxPanelPages == 4
\* List items that fit into the panel's scroll container.
PanelVisible == 2
\* The overscan prop of the panel: items rendered past each end of the
\* visible range.
PanelOverscan == 1

\* Largest number of nodes of the raw outlines enumerated.
MaxOutlineNodes == 3

\* Largest number of nodes of the raw outlines of two documents loaded one
\* after the other.
MaxRaceNodes == 1

\* Largest pagesCount of a viewer; goToPage is called with 0..MaxNavPages + 1.
MaxNavPages == 2

\* Number of goToPage calls followed.
MaxNavCalls == 2

\* Number of documents handed to useThumbnails one after another.
MaxDocuments == 2

\* Largest page width and height; rectangle coordinates are multiples of
\* half a pixel up to it.
MaxPageDim == 2
\* Largest currentScale handed to the conversion back to the viewport.
MaxCoordScale == 2

\* ------------------------------------------------------ program constants
MAX_CONCURRENT_RENDERS == 3

\* --------------------------------------------------------- ThumbnailData
\* dataUrl is null or the data URL produced by canvas.toDataURL; error is
\* absent or the message of the caught error.
NoUrl == "null"
DataUrl == "data:image/jpeg"
NoError == "none"
ErrorMsg == "Failed to load"

LoadingData(pageNumber) ==
    [pageNumber |-> pageNumber, dataUrl |-> NoUrl, isLoading |-> TRUE, error |-> NoError]

LoadedData(pageNumber) ==
    [pageNumber |-> pageNumber, dataUrl |-> DataUrl, isLoading |-> FALSE, error |-> NoError]

FailedData(pageNumber) ==
    [pageNumber |-> pageNumber, dataUrl |-> NoUrl, isLoading |-> FALSE, error |-> ErrorMsg]

\* No entry.
NoData == [pageNumber |-> 0, dataUrl |-> NoUrl, isLoading |-> FALSE, error |-> NoError]

\* The entry getThumbnail returns for a page the map does not hold.
DefaultData(pageNumber) ==
    [pageNumber |-> pageNumber, dataUrl |-> NoUrl, isLoading |-> FALSE, error |-> NoError]

\* ------------------------------------------------------------- sequences
Range(s) == {s[i] : i \in 1..Len(s)}

\* Array.prototype.filter(x => x !== v)
RECURSIVE Without(_, _)
Without(s, v) ==
    IF s = << >> THEN << >>
    ELSE IF Head(s) = v THEN Without(Tail(s), v)
         ELSE <<Head(s)>> \o Without(Tail(s), v)

\* MapSet that keeps the value of an existing key.
MapSetKeepsFirst(m, data) ==
    IF \E i \in 1..Len(m) : m[i].pageNumber = data.pageNumber
    THEN m
    ELSE Append(m, data)

\* Map.prototype.set on a Map kept as the sequence of its values in
\* insertion order: an existing key keeps its position.
MapSet(m, data) ==
    IF \E i \in 1..Len(m) : m[i].pageNumber = data.pageNumber
    THEN [i \in 1..Len(m) |-> IF m[i].pageNumber = data.pageNumber THEN data ELSE m[i]]
    ELSE Append(m, data)

MapHas(m, pageNumber) == \E i \in 1..Len(m) : m[i].pageNumber = pageNumber

MapGet(m, pageNumber) == m[CHOOSE i \in 1..Len(m) : m[i].pageNumber = pageNumber]

\* ------------------------------------------------------------------ state
VARIABLES
    totalPages,         \* pdfDocument.numPages
    cacheSize,          \* the cacheSize option
    maxRequests,        \* render tasks loadThumbnail may enqueue in this behaviour
    maxClears,          \* clearCache calls in this behaviour
    mounted,            \* the component using the hook is mounted
    thumbnails,         \* useState Map: page -> ThumbnailData
    loadingRef,         \* Set of pages
    loadedRef,          \* Set of pages
    cacheOrderRef,      \* array of pages, least recently loaded first
    renderQueueRef,     \* array of pages waiting for a render slot
    activeRendersRef,   \* number
    isProcessingRef,    \* boolean
    pendingUpdatesRef,  \* Map page -> ThumbnailData, in insertion order
    flushTimeoutRef,    \* TRUE while the ref holds a timer id
    timers,             \* number of flush timers set and neither fired nor cleared
    inFlight,           \* per page, its renderThumbnail promises not yet settled
    enqOrder,           \* history: the waiting pages in order of request
    outOfOrder,         \* history: a render started ahead of an older request
    backlog,            \* history: most pages (up to 2) found waiting by a freed slot
    cycleTasks,         \* history: per page, the render tasks enqueued since
                        \* its render last settled or the cache was cleared
    evicted,            \* history: pages evicted and not requested since
    lastQueued,         \* history: per page, the update queued last and not
                        \* discarded since by an eviction or clearCache
    evictedMidRender,   \* history: a page was evicted while one of its
                        \* rasterizations was started and not settled
    completed,          \* history: pages in order of successful completion
    requests,           \* history: number of render tasks enqueued so far
    clears,             \* history: number of clearCache calls so far
    seen,               \* history: number of distinct pages requested so far
    \* ThumbnailPanel and its ThumbnailItems
    currentPage,        \* prop of the panel's last render
    panelTotalPages,    \* prop totalPages of the panel's last render
    customRenderer,     \* the renderThumbnail prop is supplied
    scrollOffset,       \* index of the first visible list item
    items,              \* per page, what the panel renders for its list item
    effectDeps,         \* dependencies React recorded for the scroll effect
    scrollToIndexCalls, \* calls of scrollToIndex made by the last step
    scrollTarget,       \* index passed by the last step's call, or -1
    onLoadCall,         \* page passed to onLoad by the last step, or 0
    \* useDocumentOutline
    rawOutline,         \* what pdfDocument.getOutline() settles with
    outline,            \* useState: null or the processed outline
    isLoading,          \* useState
    error,              \* useState: TRUE when an Error is set
    cancelled,          \* the flag of the fetch effect
    fetchPhase,         \* where fetchOutline stands
    \* coordinate conversion
    pageDimensions,     \* width and height of the unscaled page
    viewportRect,       \* the viewport rectangle to convert
    currentScale,       \* the scale of the conversion back
    scaledRect,         \* the scaled rectangle, once converted
    restoredRect,       \* the viewport rectangle converted back
    coordPhase,         \* where the conversion stands
    \* the documents handed to useThumbnails
    pdfDocument,        \* the pdfDocument option: which document it is
    startedWith,        \* per page, the document its running render reads, or 0
    imageFrom,          \* per page, the document its last image was rendered from, or 0
    \* useDocumentOutline: the fetch an effect cleanup cancelled
    staleRaw,           \* what getOutline of the previous document settles with
    stalePhase,         \* where the fetch of the previous document stands
    staleLast,          \* history: the stale fetch ended after the current one
    \* usePageNavigation
    viewer,             \* the viewer option of the last render (viewerRef.current)
    eventBus,           \* whether the eventBus option is an event bus
    navCurrentPage,     \* currentPage state of usePageNavigation
    syncedRef,          \* syncedRef.current
    scrollPageIntoViewCalls,\* calls of viewer.scrollPageIntoView so far
    scrollIntoViewCalls,\* calls of pageElement.scrollIntoView so far
    goToPageCalls,      \* calls of goToPage so far
    lastGoToPage        \* argument and surroundings of the last goToPage call

vars == <<totalPages, cacheSize, maxRequests, maxClears, mounted, thumbnails, loadingRef, loadedRef,
          cacheOrderRef, renderQueueRef, activeRendersRef, isProcessingRef,
          pendingUpdatesRef, flushTimeoutRef, timers, inFlight, enqOrder,
          outOfOrder, backlog, cycleTasks, evicted, lastQueued, evictedMidRender, completed, requests, clears, seen,
          currentPage, panelTotalPages, customRenderer, scrollOffset, items,
          effectDeps, scrollToIndexCalls, scrollTarget, onLoadCall,
          rawOutline, outline, isLoading, error, cancelled, fetchPhase,
          pageDimensions, viewportRect, currentScale, scaledRect, restoredRect, coordPhase,
          pdfDocument, startedWith, imageFrom,
          staleRaw, stalePhase, staleLast,
          viewer, eventBus, navCurrentPage, syncedRef, scrollPageIntoViewCalls, scrollIntoViewCalls, goToPageCalls, lastGoToPage>>

coordVars == <<pageDimensions, viewportRect, currentScale, scaledRect, restoredRect, coordPhase>>

navVars == <<viewer, eventBus, navCurrentPage, syncedRef, scrollPageIntoViewCalls, scrollIntoViewCalls, goToPageCalls, lastGoToPage>>

raceVars == <<staleRaw, stalePhase, staleLast>>

docVars == <<pdfDocument, startedWith, imageFrom>>

outlineVars == <<rawOutline, outline, isLoading, error, cancelled, fetchPhase>>

hookVars == <<totalPages, cacheSize, maxRequests, maxClears, mounted, thumbnails, loadingRef,
              loadedRef, cacheOrderRef, renderQueueRef, activeRendersRef, isProcessingRef,
              pendingUpdatesRef, flushTimeoutRef, timers, inFlight, enqOrder, outOfOrder,
              backlog, cycleTasks, evicted, lastQueued, evictedMidRender, completed,
              requests, clears, seen>>

panelVars == <<currentPage, panelTotalPages, customRenderer, scrollOffset, items,
               effectDeps, scrollToIndexCalls, scrollTarget, onLoadCall>>

Pages == 1..totalPages

\* The refs of one hook instance as a record, so that the hook's functions
\* are operators from refs to refs.
Refs ==
    [thumbnails |-> thumbnails, loadingRef |-> loadingRef, loadedRef |-> loadedRef,
     cacheOrderRef |-> cacheOrderRef, renderQueueRef |-> renderQueueRef,
     activeRendersRef |-> activeRendersRef, isProcessingRef |-> isProcessingRef,
     pendingUpdatesRef |-> pendingUpdatesRef, flushTimeoutRef |-> flushTimeoutRef,
     timers |-> timers, inFlight |-> inFlight, enqOrder |-> enqOrder, outOfOrder |-> outOfOrder,
     backlog |-> backlog,
     cycleTasks |-> cycleTasks, evicted |-> evicted,
     lastQueued |-> lastQueued, evictedMidRender |-> evictedMidRender,
     completed |-> completed,
     requests |-> requests, clears |-> clears, seen |-> seen]

Commit(r) ==
    /\ thumbnails' = r.thumbnails
    /\ loadingRef' = r.loadingRef
    /\ loadedRef' = r.loadedRef
    /\ cacheOrderRef' = r.cacheOrderRef
    /\ renderQueueRef' = r.renderQueueRef
    /\ activeRendersRef' = r.activeRendersRef
    /\ isProcessingRef' = r.isProcessingRef
    /\ pendingUpdatesRef' = r.pendingUpdatesRef
    /\ flushTimeoutRef' = r.flushTimeoutRef
    /\ timers' = r.timers
    /\ inFlight' = r.inFlight
    /\ enqOrder' = r.enqOrder
    /\ outOfOrder' = r.outOfOrder
    /\ backlog' = r.backlog
    /\ cycleTasks' = r.cycleTasks
    /\ evicted' = r.evicted
    /\ lastQueued' = r.lastQueued
    /\ evictedMidRender' = r.evictedMidRender
    /\ completed' = r.completed
    /\ requests' = r.requests
    /\ clears' = r.clears
    /\ seen' = r.seen

\* The state after the hook's first render.
InitRefs ==
    /\ mounted = TRUE
    /\ thumbnails = << >>
    /\ loadingRef = {}
    /\ loadedRef = {}
    /\ cacheOrderRef = << >>
    /\ renderQueueRef = << >>
    /\ activeRendersRef = 0
    /\ isProcessingRef = FALSE
    /\ pendingUpdatesRef = << >>
    /\ flushTimeoutRef = FALSE
    /\ timers = 0
    /\ inFlight = [p \in 1..totalPages |-> 0]
    /\ enqOrder = << >>
    /\ outOfOrder = FALSE
    /\ backlog = 0
    /\ cycleTasks = [p \in 1..totalPages |-> 0]
    /\ evicted = {}
    /\ lastQueued = [p \in 1..totalPages |-> NoData]
    /\ evictedMidRender = FALSE
    /\ completed = << >>
    /\ requests = 0
    /\ clears = 0
    /\ seen = 0

\* A value of the outline state: null or a list of items.
Null == [isNull |-> TRUE, items |-> << >>]
List(list) == [isNull |-> FALSE, items |-> list]

\* useDocumentOutline not in use: no fetch is running.
OutlineIdle ==
    /\ rawOutline = [rejects |-> FALSE, value |-> Null]
    /\ outline = Null
    /\ isLoading = TRUE
    /\ error = FALSE
    /\ cancelled = FALSE
    /\ fetchPhase = "idle"

\* A rational number num/den in lowest terms, den > 0.
RECURSIVE GCD(_, _)
GCD(a, b) == IF b = 0 THEN a ELSE GCD(b, a % b)

Abs(n) == IF n < 0 THEN -n ELSE n

Rat(num, den) ==
    LET g == GCD(Abs(num), den)
    IN [num |-> num \div g, den |-> den \div g]

RatAdd(a, b) == Rat(a.num * b.den + b.num * a.den, a.den * b.den)
RatSub(a, b) == Rat(a.num * b.den - b.num * a.den, a.den * b.den)
RatMul(a, b) == Rat(a.num * b.num, a.den * b.den)
\* a / b for b > 0
RatDiv(a, b) == Rat(a.num * b.den, a.den * b.num)
RatLeq(a, b) == a.num * b.den <= b.num * a.den
Zero == Rat(0, 1)
One == Rat(1, 1)

NoRect == [left |-> Zero, top |-> Zero, width |-> Zero, height |-> Zero, pageNumber |-> 0]
NoScaled ==
    [x1 |-> Zero, y1 |-> Zero, x2 |-> Zero, y2 |-> Zero, width |-> Zero, height |-> Zero,
     pageNumber |-> 0, usePdfCoordinates |-> FALSE]

\* The viewer option: null, an object without scrollPageIntoView, or a
\* viewer; pagesCount and currentPageNumber 0 stand for 0 or undefined.
NoViewer == [kind |-> "null", pagesCount |-> 0, currentPageNumber |-> 0]

NoCall == [pageNumber |-> 0, throws |-> FALSE, found |-> FALSE]

\* usePageNavigation not in use.
NavIdle ==
    /\ viewer = NoViewer
    /\ eventBus = FALSE
    /\ navCurrentPage = 1
    /\ syncedRef = FALSE
    /\ scrollPageIntoViewCalls = 0
    /\ scrollIntoViewCalls = 0
    /\ goToPageCalls = 0
    /\ lastGoToPage = NoCall

\* useDocumentOutline has cancelled no fetch.
RaceIdle ==
    /\ staleRaw = [rejects |-> FALSE, value |-> Null]
    /\ stalePhase = "none"
    /\ staleLast = FALSE

\* The pdfDocument option never changes and is not followed.
DocIdle ==
    /\ pdfDocument = 1
    /\ startedWith = << >>
    /\ imageFrom = << >>

\* No coordinate conversion in use.
CoordsIdle ==
    /\ pageDimensions = [width |-> One, height |-> One]
    /\ viewportRect = NoRect
    /\ currentScale = One
    /\ scaledRect = NoScaled
    /\ restoredRect = NoRect
    /\ coordPhase = "idle"

\* The thumbnail panel before its first render.
PanelIdle ==
    /\ currentPage = 0
    /\ panelTotalPages = 0
    /\ customRenderer = FALSE
    /\ scrollOffset = 0
    /\ items = [p \in 1..MaxPanelPages |-> "none"]
    /\ effectDeps = << >>
    /\ scrollToIndexCalls = 0
    /\ scrollTarget = -1
    /\ onLoadCall = 0

\* Two families of behaviours: MaxPages pages and MaxRequests requests with
\* up to MaxClears calls of clearCache, or one more page and one more
\* request without clearCache (a second page can then wait in the queue).
Init ==
    /\ \/ /\ totalPages = MaxPages
          /\ maxRequests = MaxRequests
          /\ maxClears = MaxClears
       \/ /\ totalPages = MaxPages + 1
          /\ maxRequests = MaxRequests + 1
          /\ maxClears = 0
    /\ cacheSize \in 1..MaxCacheSize
    /\ InitRefs
    /\ PanelIdle
    /\ OutlineIdle
    /\ CoordsIdle
    /\ NavIdle
    /\ RaceIdle
    /\ DocIdle

\* ------------------------------------------------------- the hook's code
MapDelete(next, pageNumber) == [q \in (DOMAIN next) \ {pageNumber} |-> next[q]]

\* MapPut that keeps the error of the entry it replaces.
MapPutKeepsError(next, data) ==
    [q \in (DOMAIN next) \cup {data.pageNumber} |->
        IF q = data.pageNumber
        THEN IF q \in DOMAIN next /\ next[q].error # NoError
             THEN [data EXCEPT !.error = next[q].error]
             ELSE data
        ELSE next[q]]

\* Map.prototype.set on the map `next` of the updater, line 74.
MapPut(next, data) ==
    [q \in (DOMAIN next) \cup {data.pageNumber} |->
        IF q = data.pageNumber THEN data ELSE next[q]]

\* EvictOldest letting the order list grow one past cacheSize.
RECURSIVE EvictOldestOnePast(_, _)
EvictOldestOnePast(r, size) ==
    IF Len(r.cacheOrderRef) > size + 1
    THEN LET toEvict == Head(r.cacheOrderRef)
         IN EvictOldestOnePast([r EXCEPT !.cacheOrderRef = Tail(@),
                                         !.thumbnails = MapDelete(@, toEvict),
                                         !.loadedRef = @ \ {toEvict},
                                         !.evicted = @ \cup {toEvict},
                                  !.lastQueued[toEvict] = NoData,
                                  !.evictedMidRender = @ \/ r.inFlight[toEvict] > 0],
                               size)
    ELSE r

\* EvictOldest evicting the most recently loaded page (pop for shift).
RECURSIVE EvictNewest(_, _)
EvictNewest(r, size) ==
    IF Len(r.cacheOrderRef) > size
    THEN LET toEvict == r.cacheOrderRef[Len(r.cacheOrderRef)]
         IN EvictNewest([r EXCEPT !.cacheOrderRef = SubSeq(@, 1, Len(@) - 1),
                                  !.thumbnails = MapDelete(@, toEvict),
                                  !.loadedRef = @ \ {toEvict},
                                  !.evicted = @ \cup {toEvict},
                                  !.lastQueued[toEvict] = NoData,
                                  !.evictedMidRender = @ \/ r.inFlight[toEvict] > 0],
                        size)
    ELSE r

\* EvictOldest that leaves the evicted page's entry in the map.
RECURSIVE EvictOldestKeepsEntry(_, _)
EvictOldestKeepsEntry(r, size) ==
    IF Len(r.cacheOrderRef) > size
    THEN LET toEvict == Head(r.cacheOrderRef)
         IN EvictOldestKeepsEntry(
                [r EXCEPT !.cacheOrderRef = Tail(@),
                          !.loadedRef = @ \ {toEvict},
                          !.evicted = @ \cup {toEvict},
                          !.lastQueued[toEvict] = NoData,
                          !.evictedMidRender = @ \/ r.inFlight[toEvict] > 0],
                size)
    ELSE r

\* flushUpdates, lines 82-86: evict from the least recently loaded end
\* while the order list is longer than cacheSize.
RECURSIVE EvictOldest(_, _)
EvictOldest(r, size) ==
    IF Len(r.cacheOrderRef) > size
    THEN LET toEvict == Head(r.cacheOrderRef)
         IN EvictOldest([r EXCEPT !.cacheOrderRef = Tail(@),
                                  !.thumbnails = MapDelete(@, toEvict),
                                  !.loadedRef = @ \ {toEvict},
                                  !.evicted = @ \cup {toEvict},
                                  !.lastQueued[toEvict] = NoData,
                                  !.evictedMidRender = @ \/ r.inFlight[toEvict] > 0],
                        size)
    ELSE r

\* flushUpdates, lines 73-88: the body of pendingUpdatesRef.forEach for the
\* updates not yet visited; r.thumbnails is the map `next` being built.
RECURSIVE ApplyUpdates(_, _, _)
ApplyUpdates(r, updates, size) ==
    IF updates = << >> THEN r
    ELSE LET data == Head(updates)
             pageNumber == data.pageNumber
             r1 == [r EXCEPT !.thumbnails = MapPut(@, data)]
             r2 == IF data.dataUrl # NoUrl /\ ~data.isLoading
                   THEN EvictOldest(
                          [r1 EXCEPT !.cacheOrderRef =
                                        Append(Without(@, pageNumber), pageNumber)],
                          size)
                   ELSE r1
         IN ApplyUpdates(r2, Tail(updates), size)

\* flushUpdates, lines 71-90: the updater handed to setThumbnails, run on
\* the previous map prev. It builds next from prev and the pending
\* updates, changes cacheOrderRef and loadedRef on the way and clears
\* pendingUpdatesRef; r.thumbnails is the map it returns.
updater(r, prev, size) ==
    [ApplyUpdates([r EXCEPT !.thumbnails = prev], r.pendingUpdatesRef, size)
        EXCEPT !.pendingUpdatesRef = << >>]

\* flushUpdates with the updater it passes to setThumbnails.
flushUpdates(r, size) ==
    IF Len(r.pendingUpdatesRef) = 0 THEN r
    ELSE updater(r, r.thumbnails, size)

\* queueUpdate setting a timer for every update.
queueUpdateTimerPerUpdate(r, data) ==
    [r EXCEPT !.pendingUpdatesRef = MapSet(@, data),
              !.lastQueued[data.pageNumber] = data,
              !.flushTimeoutRef = TRUE,
              !.timers = @ + 1]

\* queueUpdate, lines 96-103: a timer is set only when the ref holds none.
queueUpdate(r, data) ==
    LET r1 == [r EXCEPT !.pendingUpdatesRef = MapSet(@, data),
                        !.lastQueued[data.pageNumber] = data]
    IN IF ~r1.flushTimeoutRef
       THEN [r1 EXCEPT !.flushTimeoutRef = TRUE, !.timers = @ + 1]
       ELSE r1

\* The sequence without its first occurrence of v.
RECURSIVE RemoveFirst(_, _)
RemoveFirst(s, v) ==
    IF s = << >> THEN << >>
    ELSE IF Head(s) = v THEN Tail(s)
         ELSE <<Head(s)>> \o RemoveFirst(Tail(s), v)

\* ProcessLoop with the ceiling test off by one (<= for <).
RECURSIVE ProcessLoopOverCeiling(_)
ProcessLoopOverCeiling(r) ==
    IF Len(r.renderQueueRef) > 0 /\ r.activeRendersRef <= MAX_CONCURRENT_RENDERS
    THEN LET pageNumber == Head(r.renderQueueRef)
         IN ProcessLoopOverCeiling(
                [r EXCEPT !.renderQueueRef = Tail(@),
                          !.activeRendersRef = @ + 1,
                          !.inFlight[pageNumber] = @ + 1,
                          !.outOfOrder = @ \/ Head(r.enqOrder) # pageNumber,
                          !.enqOrder = RemoveFirst(@, pageNumber)])
    ELSE r

\* ProcessLoop taking the youngest request (pop for shift).
RECURSIVE ProcessLoopPop(_)
ProcessLoopPop(r) ==
    IF Len(r.renderQueueRef) > 0 /\ r.activeRendersRef < MAX_CONCURRENT_RENDERS
    THEN LET pageNumber == r.renderQueueRef[Len(r.renderQueueRef)]
         IN ProcessLoopPop(
                [r EXCEPT !.renderQueueRef = SubSeq(@, 1, Len(@) - 1),
                          !.activeRendersRef = @ + 1,
                          !.inFlight[pageNumber] = @ + 1,
                          !.outOfOrder = @ \/ Head(r.enqOrder) # pageNumber,
                          !.enqOrder = RemoveFirst(@, pageNumber)])
    ELSE r

\* processQueue, lines 160-173: the while loop. The synchronous part of
\* renderThumbnail only asks the document for the page, so starting a
\* render adds a pending promise and changes no ref.
RECURSIVE ProcessLoop(_)
ProcessLoop(r) ==
    IF Len(r.renderQueueRef) > 0 /\ r.activeRendersRef < MAX_CONCURRENT_RENDERS
    THEN LET pageNumber == Head(r.renderQueueRef)
         IN ProcessLoop([r EXCEPT !.renderQueueRef = Tail(@),
                                  !.activeRendersRef = @ + 1,
                                  !.inFlight[pageNumber] = @ + 1,
                                  !.outOfOrder = @ \/ Head(r.enqOrder) # pageNumber,
                                  !.enqOrder = RemoveFirst(@, pageNumber)])
    ELSE r

\* processQueue that leaves isProcessingRef set when its loop ends.
processQueueKeepsFlag(r) ==
    IF r.isProcessingRef THEN r
    ELSE ProcessLoop([r EXCEPT !.isProcessingRef = TRUE])

\* processQueue, lines 156-176. It has no await, so it runs to its end
\* within the call.
processQueue(r) ==
    IF r.isProcessingRef THEN r
    ELSE [ProcessLoop([r EXCEPT !.isProcessingRef = TRUE])
            EXCEPT !.isProcessingRef = FALSE]

\* renderThumbnail whose catch block leaves the page marked as loading.
renderThumbnailKeepsLoading(r, pageNumber, ok) ==
    IF ok
    THEN [queueUpdate([r EXCEPT !.loadedRef = @ \cup {pageNumber},
                                !.evicted = @ \ {pageNumber}],
                      LoadedData(pageNumber))
            EXCEPT !.loadingRef = @ \ {pageNumber}]
    ELSE queueUpdate(r, FailedData(pageNumber))

\* renderThumbnail from the point where the rasterization settles: the
\* rest of the try block when it resolved, the catch block when it
\* rejected, then the finally block.
renderThumbnail(r, pageNumber, ok) ==
    LET r1 == IF ok
              THEN queueUpdate([r EXCEPT !.loadedRef = @ \cup {pageNumber},
                                         !.evicted = @ \ {pageNumber}],
                               LoadedData(pageNumber))
              ELSE queueUpdate(r, FailedData(pageNumber))
    IN [r1 EXCEPT !.loadingRef = @ \ {pageNumber}]

\* renderFinally that releases the slot without resuming the queue.
renderFinallyNoResume(r) ==
    [r EXCEPT !.activeRendersRef = @ - 1]

\* processQueue, lines 165-172: the .finally reaction of one render.
renderFinally(r) ==
    LET r1 == [r EXCEPT !.activeRendersRef = @ - 1]
        waiting == IF Len(r1.renderQueueRef) > 1 THEN 2 ELSE 1
    IN IF Len(r1.renderQueueRef) > 0
       THEN processQueue([r1 EXCEPT !.isProcessingRef = FALSE,
                                    !.backlog = IF waiting > @ THEN waiting ELSE @])
       ELSE r1

\* loadThumbnail without the loadingRef test of line 182.
loadThumbnailNoLoadingTest(r, pageNumber) ==
    LET called == [r EXCEPT !.seen = IF pageNumber > @ THEN pageNumber ELSE @]
    IN IF pageNumber \in called.loadedRef
       THEN called
       ELSE IF pageNumber \in Range(called.renderQueueRef)
       THEN called
       ELSE LET r1 == [called EXCEPT !.loadingRef = @ \cup {pageNumber}]
                r2 == queueUpdate(r1, LoadingData(pageNumber))
                r3 == [r2 EXCEPT !.renderQueueRef = Append(@, pageNumber),
                                 !.enqOrder = Append(@, pageNumber),
                                 !.requests = @ + 1,
                                 !.cycleTasks[pageNumber] = @ + 1,
                                 !.evicted = @ \ {pageNumber}]
            IN processQueue(r3)

loadThumbnail(r, pageNumber) ==
    LET called == [r EXCEPT !.seen = IF pageNumber > @ THEN pageNumber ELSE @]
    IN IF pageNumber \in called.loadingRef \/ pageNumber \in called.loadedRef
       THEN called
       ELSE IF pageNumber \in Range(called.renderQueueRef)
       THEN called
       ELSE LET r1 == [called EXCEPT !.loadingRef = @ \cup {pageNumber}]
                r2 == queueUpdate(r1, LoadingData(pageNumber))
                r3 == [r2 EXCEPT !.renderQueueRef = Append(@, pageNumber),
                                 !.enqOrder = Append(@, pageNumber),
                                 !.requests = @ + 1,
                                 !.cycleTasks[pageNumber] = @ + 1,
                                 !.evicted = @ \ {pageNumber}]
            IN processQueue(r3)

\* preloadThumbnails: forEach over the page numbers.
RECURSIVE preloadThumbnails(_, _)
preloadThumbnails(r, pageNumbers) ==
    IF pageNumbers = << >> THEN r
    ELSE preloadThumbnails(loadThumbnail(r, Head(pageNumbers)), Tail(pageNumbers))

getThumbnail(r, pageNumber) ==
    IF pageNumber \in DOMAIN r.thumbnails
    THEN r.thumbnails[pageNumber]
    ELSE DefaultData(pageNumber)

\* A call of getThumbnail that requests the page it reads.
getThumbnailCallLoads(r, pageNumber) ==
    [refs |-> loadThumbnail(r, pageNumber), result |-> getThumbnail(r, pageNumber)]

\* One call of getThumbnail: the refs it leaves behind and the entry it
\* returns. The callback reads thumbnailsRef and writes nothing.
getThumbnailCall(r, pageNumber) ==
    [refs |-> r, result |-> getThumbnail(r, pageNumber)]

clearCache(r) ==
    [r EXCEPT !.thumbnails = << >>,
              !.cacheOrderRef = << >>,
              !.loadingRef = {},
              !.loadedRef = {},
              !.clears = @ + 1,
              !.cycleTasks = [p \in DOMAIN @ |-> 0],
              !.lastQueued = [p \in DOMAIN @ |->
                                IF MapHas(r.pendingUpdatesRef, p)
                                THEN MapGet(r.pendingUpdatesRef, p)
                                ELSE NoData]]

\* The cleanup of the unmount effect, lines 249-256.
unmountCleanup(r) ==
    LET r1 == [r EXCEPT !.loadingRef = {},
                        !.cycleTasks = [p \in DOMAIN @ |-> 0]]
    IN IF r1.flushTimeoutRef
       THEN [r1 EXCEPT !.timers = @ - 1, !.flushTimeoutRef = FALSE]
       ELSE r1

\* ---------------------------------------------------------------- actions
Static ==
    /\ UNCHANGED <<totalPages, cacheSize, maxRequests, maxClears>>
    /\ UNCHANGED panelVars
    /\ UNCHANGED outlineVars
    /\ UNCHANGED coordVars
    /\ UNCHANGED navVars
    /\ UNCHANGED raceVars
    /\ UNCHANGED docVars

\* Page numbers are only ever compared for equality, so the pages are
\* interchangeable: a page not requested before is taken to be the lowest
\* such page.
Requestable == {p \in Pages : p <= seen + 1}

\* A caller invokes loadThumbnail(pageNumber).
LoadThumbnail ==
    \E pageNumber \in Requestable :
        /\ mounted
        /\ requests < maxRequests
        /\ Commit(loadThumbnail(Refs, pageNumber))
        /\ UNCHANGED mounted
        /\ Static

\* A caller invokes preloadThumbnails with two page numbers.
PreloadThumbnails ==
    \E a \in Requestable, b \in Pages :
        /\ b <= (IF a > seen THEN a ELSE seen) + 1
        /\ mounted
        /\ requests + 1 < maxRequests
        /\ Commit(preloadThumbnails(Refs, <<a, b>>))
        /\ UNCHANGED mounted
        /\ Static

EndCycle(r, pageNumber) ==
    [r EXCEPT !.cycleTasks[pageNumber] = 0]

Settle(r, pageNumber, ok) ==
    renderFinally(EndCycle(
        renderThumbnail([r EXCEPT !.inFlight[pageNumber] = @ - 1], pageNumber, ok),
        pageNumber))

RenderSettled(pageNumber, ok) ==
    /\ pageNumber \in Pages
    /\ inFlight[pageNumber] > 0
    /\ Commit(Settle(Refs, pageNumber, ok))
    /\ UNCHANGED mounted
    /\ Static

\* The rasterization of one page resolves.
RenderResolved == \E pageNumber \in Pages : RenderSettled(pageNumber, TRUE)

\* The rasterization of one page rejects.
RenderRejected == \E pageNumber \in Pages : RenderSettled(pageNumber, FALSE)

\* The timer callback of queueUpdate, lines 99-102. updaterRuns tells
\* whether React runs the updater handed to setThumbnails.
flushTimer(r, size, updaterRuns) ==
    LET r1 == [r EXCEPT !.timers = @ - 1, !.flushTimeoutRef = FALSE]
    IN IF updaterRuns THEN flushUpdates(r1, size) ELSE r1

\* React runs the updater of a mounted component; for an unmounted one it
\* may run it eagerly or drop the update.
UpdaterOutcomes == IF mounted THEN {TRUE} ELSE {TRUE, FALSE}

\* A 50 ms timer set by queueUpdate fires.
FlushTimer ==
    /\ timers > 0
    /\ \E updaterRuns \in UpdaterOutcomes :
          Commit(flushTimer(Refs, cacheSize, updaterRuns))
    /\ UNCHANGED mounted
    /\ Static

ClearCache ==
    /\ mounted
    /\ clears < maxClears
    /\ Commit(clearCache(Refs))
    /\ UNCHANGED mounted
    /\ Static

Unmount ==
    /\ mounted
    /\ mounted' = FALSE
    /\ Commit(unmountCleanup(Refs))
    /\ Static

Next ==
    \/ LoadThumbnail
    \/ PreloadThumbnails
    \/ RenderResolved
    \/ RenderRejected
    \/ FlushTimer
    \/ ClearCache
    \/ Unmount

Spec == Init /\ [][Next]_vars

\* ------------------------------------------------------ progress scenario
\* The hook stays mounted, clearCache is not called and the smallest cache
\* is used.
InitLive ==
    /\ totalPages = MaxPages
    /\ maxRequests = MaxRequests
    /\ maxClears = 0
    /\ cacheSize = 1
    /\ InitRefs
    /\ PanelIdle
    /\ OutlineIdle
    /\ CoordsIdle
    /\ NavIdle
    /\ RaceIdle
    /\ DocIdle

NextLive ==
    \/ LoadThumbnail
    \/ PreloadThumbnails
    \/ RenderResolved
    \/ RenderRejected
    \/ FlushTimer

\* Every started rasterization eventually settles (the promise of
\* page.render resolves or rejects), so a settle step is taken whenever one
\* stays possible.
LiveSpec ==
    /\ InitLive
    /\ [][NextLive]_vars
    /\ WF_vars(RenderResolved \/ RenderRejected)

\* ------------------------------------------- sequential loading scenario
\* cacheSize + 5 distinct pages are requested one after another, each
\* render resolving before the next request; the flush timer fires at any
\* time.
InitSeq ==
    /\ cacheSize \in 1..MaxSeqCacheSize
    /\ totalPages = cacheSize + 5
    /\ maxRequests = totalPages
    /\ maxClears = 0
    /\ InitRefs
    /\ PanelIdle
    /\ OutlineIdle
    /\ CoordsIdle
    /\ NavIdle
    /\ RaceIdle
    /\ DocIdle

SeqLoad ==
    \E pageNumber \in Pages \ Range(completed) :
        /\ Len(renderQueueRef) = 0
        /\ \A q \in Pages : inFlight[q] = 0
        /\ Commit(loadThumbnail(Refs, pageNumber))
        /\ UNCHANGED mounted
        /\ Static

SeqResolved ==
    \E pageNumber \in Pages :
        /\ inFlight[pageNumber] > 0
        /\ Commit([Settle(Refs, pageNumber, TRUE)
                      EXCEPT !.completed = Append(@, pageNumber)])
        /\ UNCHANGED mounted
        /\ Static

NextSeq ==
    \/ SeqLoad
    \/ SeqResolved
    \/ FlushTimer

SeqSpec == InitSeq /\ [][NextSeq]_vars

\* ------------------------------------------- concurrent loading scenario
\* Pages are requested at any time and every render resolves; the order
\* of the completions is recorded. clearCache is not called.
InitLru ==
    /\ cacheSize \in 1..MaxCacheSize
    /\ totalPages = MaxPages
    /\ maxRequests = MaxRequests
    /\ maxClears = 0
    /\ InitRefs
    /\ PanelIdle
    /\ OutlineIdle
    /\ CoordsIdle
    /\ NavIdle
    /\ RaceIdle
    /\ DocIdle

NextLru ==
    \/ LoadThumbnail
    \/ SeqResolved
    \/ FlushTimer

LruSpec == InitLru /\ [][NextLru]_vars

\* ---------------------------------------------- clearCache as last call
\* Pages are requested until clearCache is called and not after it;
\* renders settle and timers fire at any time.
InitClear ==
    /\ cacheSize \in 1..MaxCacheSize
    /\ totalPages = MaxPages
    /\ maxRequests = MaxRequests
    /\ maxClears = MaxClears
    /\ InitRefs
    /\ PanelIdle
    /\ OutlineIdle
    /\ CoordsIdle
    /\ NavIdle
    /\ RaceIdle
    /\ DocIdle

LoadBeforeClear == clears = 0 /\ LoadThumbnail

NextClear ==
    \/ LoadBeforeClear
    \/ RenderResolved
    \/ RenderRejected
    \/ FlushTimer
    \/ ClearCache

ClearSpec == InitClear /\ [][NextClear]_vars

\* ------------------------------------------------- change of pdfDocument
\* The component is rendered with another pdfDocument. renderThumbnail,
\* processQueue and loadThumbnail are made anew for it (their useCallback
\* dependencies, lines 152, 176, 204); no state and no ref is reset, and a
\* render that is running keeps the callbacks it was started with.
InitDoc ==
    /\ cacheSize \in 1..MaxCacheSize
    /\ totalPages = MaxPages
    /\ maxRequests = MaxRequests
    /\ maxClears = 0
    /\ InitRefs
    /\ PanelIdle
    /\ OutlineIdle
    /\ CoordsIdle
    /\ NavIdle
    /\ RaceIdle
    /\ pdfDocument = 1
    /\ startedWith = [p \in 1..MaxPages |-> 0]
    /\ imageFrom = [p \in 1..MaxPages |-> 0]

DocFrame ==
    /\ UNCHANGED <<totalPages, cacheSize, maxRequests, maxClears, mounted>>
    /\ UNCHANGED panelVars
    /\ UNCHANGED outlineVars
    /\ UNCHANGED coordVars
    /\ UNCHANGED navVars
    /\ UNCHANGED raceVars

\* The pages whose render the step started, given the document doc of the
\* renderThumbnail that processQueue called.
StartedBy(doc) ==
    [p \in 1..MaxPages |->
        IF inFlight'[p] > inFlight[p] THEN doc ELSE startedWith[p]]

\* loadThumbnail of the current render: processQueue starts renders that
\* read the current document.
DocLoadThumbnail ==
    \E pageNumber \in Requestable :
        /\ requests < maxRequests
        /\ Commit(loadThumbnail(Refs, pageNumber))
        /\ startedWith' = StartedBy(pdfDocument)
        /\ UNCHANGED <<pdfDocument, imageFrom>>
        /\ DocFrame

\* A render settles. Its dataUrl shows the page of the document it read
\* (line 109); the processQueue of its .finally reaction is the one that
\* started it, so the renders it starts read the same document.
DocRenderSettled ==
    \E pageNumber \in Pages, ok \in BOOLEAN :
        /\ inFlight[pageNumber] > 0
        /\ Commit(Settle(Refs, pageNumber, ok))
        /\ startedWith' = [StartedBy(startedWith[pageNumber]) EXCEPT ![pageNumber] = 0]
        /\ imageFrom' = IF ok THEN [imageFrom EXCEPT ![pageNumber] = startedWith[pageNumber]]
                        ELSE imageFrom
        /\ UNCHANGED pdfDocument
        /\ DocFrame

DocFlushTimer ==
    /\ timers > 0
    /\ Commit(flushTimer(Refs, cacheSize, TRUE))
    /\ UNCHANGED docVars
    /\ DocFrame

\* The parent renders the component with the next document.
ChangeDocument ==
    /\ pdfDocument < MaxDocuments
    /\ pdfDocument' = pdfDocument + 1
    /\ UNCHANGED <<startedWith, imageFrom>>
    /\ UNCHANGED hookVars
    /\ UNCHANGED panelVars
    /\ UNCHANGED outlineVars
    /\ UNCHANGED coordVars
    /\ UNCHANGED navVars
    /\ UNCHANGED raceVars

NextDoc ==
    \/ DocLoadThumbnail
    \/ DocRenderSettled
    \/ DocFlushTimer
    \/ ChangeDocument

DocSpec == InitDoc /\ [][NextDoc]_vars

\* ------------------------------------------------------ thumbnail panel
\* The ThumbnailPanel component with its virtual list and the ThumbnailItem
\* components it mounts. One action is one render of the panel together
\* with the effects React runs after it, or one callback of an item's
\* IntersectionObserver. onLoad is the loadThumbnail prop; the call is
\* recorded, its effect on the hook is the LoadThumbnail action.

\* What the panel renders for a list item.
ItemStates == {"none", "custom", "observing", "loaded"}

Clamp(x, lo, hi) == IF x < lo THEN lo ELSE IF x > hi THEN hi ELSE x

MaxOffset(count) == IF count > PanelVisible THEN count - PanelVisible ELSE 0

\* Pages whose list item lies in the scroll container's visible area.
VisiblePages(offset, count) ==
    {p \in 1..count : offset + 1 <= p /\ p <= offset + PanelVisible}

\* virtualizer.getVirtualItems(): the visible items and overscan items past
\* each end.
getVirtualItems(offset, count) ==
    {p \in 1..count : offset + 1 - PanelOverscan <= p
                      /\ p <= offset + PanelVisible + PanelOverscan}

\* virtualizer.scrollToIndex(index, {align: 'center'}): the offset that
\* puts the item in the middle of the visible area, as far as the list
\* allows.
scrollToIndex(index, count) ==
    Clamp(index - ((PanelVisible - 1) \div 2), 0, MaxOffset(count))

\* The map callback of lines 117-154: every virtual item is rendered by the
\* renderThumbnail prop if there is one, else as a ThumbnailItem, which
\* keeps its hasLoadedRef while it stays mounted and starts observing when
\* it mounts (lines 29-59 of ThumbnailItem).
RenderItems(old, offset, count, custom) ==
    [p \in 1..MaxPanelPages |->
        IF p \notin getVirtualItems(offset, count) THEN "none"
        ELSE IF custom THEN "custom"
        ELSE IF old[p] \in {"observing", "loaded"} THEN old[p]
        ELSE "observing"]

\* The scroll effect run after every render.
ScrollEffectRunsEveryRender(deps, newDeps) == TRUE

\* React runs the scroll effect of lines 78-82 after the first render and
\* after a render in which a dependency changed.
ScrollEffectRuns(deps, newDeps) == deps # newDeps

\* The guard of line 79.
ScrollGuard(page, count) == page > 0 /\ page <= count

\* The parent renders the panel with props currentPage = page and
\* totalPages = count.
PanelRender ==
    \E page \in 0..(MaxPanelPages + 1), count \in 0..MaxPanelPages :
        LET newDeps == <<page, count>>
            scrolls == ScrollEffectRuns(effectDeps, newDeps) /\ ScrollGuard(page, count)
            offset == IF scrolls THEN scrollToIndex(page - 1, count)
                      ELSE Clamp(scrollOffset, 0, MaxOffset(count))
        IN /\ currentPage' = page
           /\ panelTotalPages' = count
           /\ effectDeps' = newDeps
           /\ scrollToIndexCalls' = IF scrolls THEN 1 ELSE 0
           /\ scrollTarget' = IF scrolls THEN page - 1 ELSE -1
           /\ scrollOffset' = offset
           /\ items' = RenderItems(items, offset, count, customRenderer)
           /\ onLoadCall' = 0
           /\ UNCHANGED customRenderer
           /\ UNCHANGED hookVars
           /\ UNCHANGED outlineVars
           /\ UNCHANGED coordVars
           /\ UNCHANGED navVars
           /\ UNCHANGED raceVars
           /\ UNCHANGED docVars

\* The user scrolls the list; the virtualizer renders the panel again with
\* the props it has.
PanelScroll ==
    \E offset \in 0..MaxOffset(panelTotalPages) :
        LET scrolls == ScrollEffectRuns(effectDeps, <<currentPage, panelTotalPages>>)
                       /\ ScrollGuard(currentPage, panelTotalPages)
        IN /\ effectDeps # << >>
           /\ offset # scrollOffset
           /\ scrollOffset' = IF scrolls THEN scrollToIndex(currentPage - 1, panelTotalPages)
                              ELSE offset
           /\ items' = RenderItems(items, scrollOffset', panelTotalPages, customRenderer)
           /\ scrollToIndexCalls' = IF scrolls THEN 1 ELSE 0
           /\ scrollTarget' = IF scrolls THEN currentPage - 1 ELSE -1
           /\ onLoadCall' = 0
           /\ UNCHANGED <<currentPage, panelTotalPages, customRenderer, effectDeps>>
           /\ UNCHANGED hookVars
           /\ UNCHANGED outlineVars
           /\ UNCHANGED coordVars
           /\ UNCHANGED navVars
           /\ UNCHANGED raceVars
           /\ UNCHANGED docVars

\* The IntersectionObserver of a mounted ThumbnailItem reports its element
\* as intersecting: lines 39-46 of ThumbnailItem. The scroll container
\* clips the overscan items, so only visible items intersect.
ObserverCallback(pageNumber) ==
    /\ pageNumber \in VisiblePages(scrollOffset, panelTotalPages)
    /\ items[pageNumber] = "observing"
    /\ items' = [items EXCEPT ![pageNumber] = "loaded"]
    /\ onLoadCall' = pageNumber
    /\ scrollToIndexCalls' = 0
    /\ scrollTarget' = -1
    /\ UNCHANGED <<currentPage, panelTotalPages, customRenderer, scrollOffset, effectDeps>>
    /\ UNCHANGED hookVars
    /\ UNCHANGED outlineVars
    /\ UNCHANGED coordVars
    /\ UNCHANGED navVars
    /\ UNCHANGED raceVars
    /\ UNCHANGED docVars

ItemIntersects == \E pageNumber \in 1..MaxPanelPages : ObserverCallback(pageNumber)

InitPanel ==
    /\ totalPages = MaxPanelPages
    /\ cacheSize = 1
    /\ maxRequests = 0
    /\ maxClears = 0
    /\ InitRefs
    /\ currentPage = 0
    /\ panelTotalPages = 0
    /\ customRenderer \in BOOLEAN
    /\ scrollOffset = 0
    /\ items = [p \in 1..MaxPanelPages |-> "none"]
    /\ effectDeps = << >>
    /\ scrollToIndexCalls = 0
    /\ scrollTarget = -1
    /\ onLoadCall = 0
    /\ OutlineIdle
    /\ CoordsIdle
    /\ NavIdle
    /\ RaceIdle
    /\ DocIdle

NextPanel ==
    \/ PanelRender
    \/ PanelScroll
    \/ ItemIntersects

\* The observer of an item that keeps intersecting delivers its callback.
PanelSpec ==
    /\ InitPanel
    /\ [][NextPanel]_vars
    /\ \A pageNumber \in 1..MaxPanelPages : WF_vars(ObserverCallback(pageNumber))

\* ----------------------------------------------------- document outline
\* The useDocumentOutline hook: its fetch effect, processOutlineItems and
\* flattenOutline. An outline item is a record with title, dest and items;
\* a processed item has id, title, pageNumber, dest, level and children.

\* item.dest: absent, a named destination (a string) or an explicit
\* destination (an array whose first element is a page reference; ref 0
\* stands for a null first element).
NoDest == [kind |-> "none", name |-> "", ref |-> 0]
NamedDest(name) == [kind |-> "name", name |-> name, ref |-> 0]
ExplicitDest(ref) == [kind |-> "array", name |-> "", ref |-> ref]

\* The document: "intro" names a destination on the page of reference 1,
\* "missing" names none, the lookup of "broken" rejects; the references 1
\* and 2 belong to the pages of index 1 and 2 and reference 99 belongs to
\* no page.
KnownRefs == {1, 2}
UnknownRef == 99

Dests ==
    {NoDest, NamedDest("intro"), NamedDest("missing"), NamedDest("broken"),
     ExplicitDest(2), ExplicitDest(UnknownRef)}

\* pdfDocument.getDestination(name): an explicit destination, null, or a
\* rejection.
getDestination(name) ==
    IF name = "intro" THEN [threw |-> FALSE, isNull |-> FALSE, dest |-> ExplicitDest(1)]
    ELSE IF name = "missing" THEN [threw |-> FALSE, isNull |-> TRUE, dest |-> NoDest]
    ELSE [threw |-> TRUE, isNull |-> TRUE, dest |-> NoDest]

\* pdfDocument.getPageIndex(ref): the zero-based page index, or a rejection.
getPageIndex(ref) ==
    IF ref \in KnownRefs THEN [threw |-> FALSE, pageIndex |-> ref]
    ELSE [threw |-> TRUE, pageIndex |-> 0]

\* TryResolve that stores the zero-based page index as the page number.
TryResolveZeroBased(dest) ==
    LET looked == IF dest.kind = "name"
                  THEN getDestination(dest.name)
                  ELSE [threw |-> FALSE, isNull |-> FALSE, dest |-> dest]
    IN IF looked.threw THEN [threw |-> TRUE, pageNumber |-> 1]
       ELSE IF looked.isNull \/ looked.dest.ref = 0 THEN [threw |-> FALSE, pageNumber |-> 1]
       ELSE LET index == getPageIndex(looked.dest.ref)
            IN IF index.threw THEN [threw |-> TRUE, pageNumber |-> 1]
               ELSE [threw |-> FALSE, pageNumber |-> index.pageIndex]

\* processOutlineItems, lines 36-44: the body of the try block. pageNumber
\* keeps its initial value 1 unless line 43 assigns it.
TryResolve(dest) ==
    LET looked == IF dest.kind = "name"
                  THEN getDestination(dest.name)
                  ELSE [threw |-> FALSE, isNull |-> FALSE, dest |-> dest]
    IN IF looked.threw THEN [threw |-> TRUE, pageNumber |-> 1]
       ELSE IF looked.isNull \/ looked.dest.ref = 0 THEN [threw |-> FALSE, pageNumber |-> 1]
       ELSE LET index == getPageIndex(looked.dest.ref)
            IN IF index.threw THEN [threw |-> TRUE, pageNumber |-> 1]
               ELSE [threw |-> FALSE, pageNumber |-> index.pageIndex + 1]

\* ResolvePageNumber without the catch block: a failed lookup is thrown on.
ResolvePageNumberNoCatch(dest) ==
    IF dest.kind = "none" THEN [threw |-> FALSE, pageNumber |-> 1]
    ELSE TryResolve(dest)

\* processOutlineItems, lines 31-49: the page number of one item. The catch
\* block swallows a failed lookup and keeps page 1.
ResolvePageNumber(dest) ==
    IF dest.kind = "none" THEN [threw |-> FALSE, pageNumber |-> 1]
    ELSE LET tried == TryResolve(dest)
         IN IF tried.threw THEN [threw |-> FALSE, pageNumber |-> 1] ELSE tried

RECURSIVE processOutlineItems(_, _)

\* ProcessFrom with an id that leaves out the sibling index.
RECURSIVE ProcessFromIdByLevel(_, _, _, _)
ProcessFromIdByLevel(rawItems, level, i, processed) ==
    IF i >= Len(rawItems) THEN [threw |-> FALSE, items |-> processed]
    ELSE LET item == rawItems[i + 1]
             resolved == ResolvePageNumber(item.dest)
             children == IF Len(item.items) > 0
                         THEN processOutlineItems(item.items, level + 1)
                         ELSE [threw |-> FALSE, items |-> << >>]
         IN IF resolved.threw \/ children.threw
            THEN [threw |-> TRUE, items |-> << >>]
            ELSE ProcessFromIdByLevel(rawItems, level, i + 1,
                     Append(processed,
                            [id |-> <<level, 0>>,
                             title |-> item.title,
                             pageNumber |-> resolved.pageNumber,
                             dest |-> item.dest,
                             level |-> level,
                             children |-> children.items]))

\* processOutlineItems, lines 22-68. The result tells whether the call
\* threw, and carries the processed items if it did not. An id
\* `outline-${level}-${i}` is kept as the pair <<level, i>>.
RECURSIVE ProcessFrom(_, _, _, _)
ProcessFrom(rawItems, level, i, processed) ==
    IF i >= Len(rawItems) THEN [threw |-> FALSE, items |-> processed]
    ELSE LET item == rawItems[i + 1]
             resolved == ResolvePageNumber(item.dest)
             children == IF Len(item.items) > 0
                         THEN processOutlineItems(item.items, level + 1)
                         ELSE [threw |-> FALSE, items |-> << >>]
         IN IF resolved.threw \/ children.threw
            THEN [threw |-> TRUE, items |-> << >>]
            ELSE ProcessFrom(rawItems, level, i + 1,
                     Append(processed,
                            [id |-> <<level, i>>,
                             title |-> item.title,
                             pageNumber |-> resolved.pageNumber,
                             dest |-> item.dest,
                             level |-> level,
                             children |-> children.items]))

processOutlineItems(rawItems, level) == ProcessFrom(rawItems, level, 0, << >>)

\* flattenOutline that lists the children of a node before the node.
RECURSIVE flattenOutlineChildrenFirst(_)
flattenOutlineChildrenFirst(processed) ==
    IF processed = << >> THEN << >>
    ELSE LET item == Head(processed)
         IN (IF Len(item.children) > 0
             THEN flattenOutlineChildrenFirst(item.children)
             ELSE << >>)
            \o <<item>>
            \o flattenOutlineChildrenFirst(Tail(processed))

\* flattenOutline, lines 73-82.
RECURSIVE flattenOutline(_)
flattenOutline(processed) ==
    IF processed = << >> THEN << >>
    ELSE LET item == Head(processed)
         IN <<item>>
            \o (IF Len(item.children) > 0 THEN flattenOutline(item.children) ELSE << >>)
            \o flattenOutline(Tail(processed))

\* The flatOutline and hasOutline values the hook returns, lines 154-161.
flatOutline == IF outline.isNull THEN << >> ELSE flattenOutline(outline.items)
hasOutline == ~outline.isNull /\ Len(outline.items) > 0

\* The raw outlines of exactly n nodes: a first tree of k nodes followed by
\* the outlines of the other n - k nodes.
RawItem(dest, children) == [title |-> "t", dest |-> dest, items |-> children]

RECURSIVE RawOutlines(_)
RawOutlines(n) ==
    IF n = 0 THEN {<< >>}
    ELSE UNION {{<<RawItem(dest, children)>> \o rest :
                    dest \in Dests, children \in RawOutlines(k - 1), rest \in RawOutlines(n - k)} :
                k \in 1..n}

\* An outline three levels deep with two children under every inner node;
\* the lookups of the first node of the second level and of a leaf fail.
Leaf(dest) == RawItem(dest, << >>)

FullOutline ==
    <<RawItem(NamedDest("intro"),
              <<RawItem(NamedDest("broken"),
                        <<Leaf(ExplicitDest(2)), Leaf(NamedDest("intro"))>>),
                RawItem(ExplicitDest(2),
                        <<Leaf(ExplicitDest(UnknownRef)), Leaf(NoDest)>>)>>),
      RawItem(ExplicitDest(2),
              <<RawItem(NoDest,
                        <<Leaf(NamedDest("intro")), Leaf(NamedDest("missing"))>>),
                RawItem(NamedDest("intro"),
                        <<Leaf(ExplicitDest(2)), Leaf(ExplicitDest(2))>>)>>)>>

\* What getOutline may settle with: a rejection, null, or an outline.
RawResults ==
    {[rejects |-> TRUE, value |-> Null], [rejects |-> FALSE, value |-> Null]}
    \cup {[rejects |-> FALSE, value |-> List(o)] :
            o \in UNION {RawOutlines(n) : n \in 0..MaxOutlineNodes} \cup {FullOutline}}

\* The hook after its first render and the start of its fetch effect:
\* fetchOutline has called setIsLoading(true) and setError(null) and waits
\* for getOutline (lines 101-106).
InitOutline ==
    /\ totalPages = MaxPages
    /\ cacheSize = 1
    /\ maxRequests = 0
    /\ maxClears = 0
    /\ InitRefs
    /\ PanelIdle
    /\ CoordsIdle
    /\ NavIdle
    /\ RaceIdle
    /\ DocIdle
    /\ rawOutline \in RawResults
    /\ outline = Null
    /\ isLoading = TRUE
    /\ error = FALSE
    /\ cancelled = FALSE
    /\ fetchPhase = "getOutline"

OutlineFrame ==
    UNCHANGED hookVars /\ UNCHANGED panelVars /\ UNCHANGED coordVars /\ UNCHANGED navVars /\ UNCHANGED raceVars /\ UNCHANGED docVars /\ UNCHANGED rawOutline

\* getOutline settles: lines 106-114, and the catch and finally blocks when
\* it rejects.
GetOutlineSettles ==
    /\ fetchPhase = "getOutline"
    /\ IF rawOutline.rejects
       THEN /\ fetchPhase' = "done"
            /\ error' = IF cancelled THEN error ELSE TRUE
            /\ isLoading' = IF cancelled THEN isLoading ELSE FALSE
            /\ UNCHANGED outline
       ELSE IF cancelled
       THEN /\ fetchPhase' = "done"
            /\ UNCHANGED <<outline, isLoading, error>>
       ELSE IF rawOutline.value.isNull \/ Len(rawOutline.value.items) = 0
       THEN /\ fetchPhase' = "done"
            /\ outline' = List(<< >>)
            /\ isLoading' = FALSE
            /\ UNCHANGED error
       ELSE /\ fetchPhase' = "processing"
            /\ UNCHANGED <<outline, isLoading, error>>
    /\ UNCHANGED cancelled
    /\ OutlineFrame

\* processOutlineItems settles: lines 116-134.
ProcessingSettles ==
    /\ fetchPhase = "processing"
    /\ LET processedOutline == processOutlineItems(rawOutline.value.items, 0)
       IN IF cancelled
          THEN UNCHANGED <<outline, isLoading, error>>
          ELSE IF processedOutline.threw
          THEN /\ error' = TRUE
               /\ isLoading' = FALSE
               /\ UNCHANGED outline
          ELSE /\ outline' = List(processedOutline.items)
               /\ isLoading' = FALSE
               /\ UNCHANGED error
    /\ fetchPhase' = "done"
    /\ UNCHANGED cancelled
    /\ OutlineFrame

\* The cleanup of the fetch effect, lines 139-141.
CancelFetch ==
    /\ ~cancelled
    /\ cancelled' = TRUE
    /\ UNCHANGED <<outline, isLoading, error, fetchPhase>>
    /\ OutlineFrame

\* --------------------------------------------------------- page navigation
Viewers ==
    {NoViewer, [kind |-> "other", pagesCount |-> 0, currentPageNumber |-> 0]}
    \cup [kind : {"viewer"}, pagesCount : 0..MaxNavPages, currentPageNumber : 0..MaxNavPages]

isViewer(obj) == obj.kind = "viewer"

NavState ==
    [currentPage |-> navCurrentPage,
     scrollPageIntoViewCalls |-> scrollPageIntoViewCalls,
     scrollIntoViewCalls |-> scrollIntoViewCalls]

\* The DOM fallback of goToPage, lines 92-99; found tells whether
\* querySelector returned the page element.
domFallback(st, pageNumber, found) ==
    IF found
    THEN [st EXCEPT !.scrollIntoViewCalls = @ + 1, !.currentPage = pageNumber]
    ELSE st

\* goToPage that also sets currentPage after the viewer scrolled.
goToPageSetsPage(st, v, pageNumber, throws, found) ==
    IF isViewer(v) /\ pageNumber >= 1 /\ pageNumber <= v.pagesCount
    THEN LET called == [st EXCEPT !.scrollPageIntoViewCalls = @ + 1]
         IN IF throws THEN domFallback(called, pageNumber, found)
            ELSE [called EXCEPT !.currentPage = pageNumber]
    ELSE domFallback(st, pageNumber, found)

\* goToPage, lines 75-102, on the viewer v of viewerRef; throws tells
\* whether scrollPageIntoView throws if it is called.
goToPage(st, v, pageNumber, throws, found) ==
    IF isViewer(v) /\ pageNumber >= 1 /\ pageNumber <= v.pagesCount
    THEN LET called == [st EXCEPT !.scrollPageIntoViewCalls = @ + 1]
         IN IF throws THEN domFallback(called, pageNumber, found)
            ELSE called
    ELSE domFallback(st, pageNumber, found)

InitNav ==
    /\ totalPages = MaxPages
    /\ cacheSize = 1
    /\ maxRequests = 0
    /\ maxClears = 0
    /\ InitRefs
    /\ PanelIdle
    /\ OutlineIdle
    /\ CoordsIdle
    /\ DocIdle
    /\ RaceIdle
    /\ viewer = NoViewer
    /\ eventBus \in BOOLEAN
    /\ navCurrentPage = 1
    /\ syncedRef = FALSE
    /\ scrollPageIntoViewCalls = 0
    /\ scrollIntoViewCalls = 0
    /\ goToPageCalls = 0
    /\ lastGoToPage = NoCall

NavFrame ==
    /\ UNCHANGED hookVars
    /\ UNCHANGED panelVars
    /\ UNCHANGED outlineVars
    /\ UNCHANGED coordVars
    /\ UNCHANGED docVars
    /\ UNCHANGED raceVars

\* A call of goToPage.
GoToPage ==
    /\ goToPageCalls < MaxNavCalls
    /\ \E pageNumber \in 0..(MaxNavPages + 1), throws \in BOOLEAN, found \in BOOLEAN :
         LET st == goToPage(NavState, viewer, pageNumber, throws, found)
         IN /\ navCurrentPage' = st.currentPage
            /\ scrollPageIntoViewCalls' = st.scrollPageIntoViewCalls
            /\ scrollIntoViewCalls' = st.scrollIntoViewCalls
            /\ lastGoToPage' = [pageNumber |-> pageNumber, throws |-> throws, found |-> found]
    /\ goToPageCalls' = goToPageCalls + 1
    /\ UNCHANGED <<viewer, eventBus, syncedRef>>
    /\ NavFrame

\* The event bus emits pagechanging: handlePageChange, lines 55-57.
PageChanging ==
    /\ eventBus
    /\ \E pageNumber \in 1..MaxNavPages : navCurrentPage' = pageNumber
    /\ UNCHANGED <<viewer, eventBus, syncedRef, scrollPageIntoViewCalls,
                   scrollIntoViewCalls, goToPageCalls, lastGoToPage>>
    /\ NavFrame

\* The hook is rendered with another viewer option: line 49 stores it in
\* viewerRef and the effect of lines 68-73 copies its currentPageNumber
\* once.
RenderWithViewer ==
    /\ \E v \in Viewers :
         /\ v # viewer
         /\ viewer' = v
         /\ IF isViewer(v) /\ v.currentPageNumber # 0 /\ ~syncedRef
            THEN navCurrentPage' = v.currentPageNumber /\ syncedRef' = TRUE
            ELSE UNCHANGED <<navCurrentPage, syncedRef>>
    /\ UNCHANGED <<eventBus, scrollPageIntoViewCalls, scrollIntoViewCalls,
                   goToPageCalls, lastGoToPage>>
    /\ NavFrame

NextNav ==
    \/ GoToPage
    \/ PageChanging
    \/ RenderWithViewer

NavSpec == InitNav /\ [][NextNav]_vars

\* --------------------------------------- outline fetches of two documents
\* The state the hook returns, and one fetchOutline call as a function of
\* the flag `cancelled` of its own effect run.
OutlineState == [outline |-> outline, isLoading |-> isLoading, error |-> error]

\* fetchAfterProcessing without the test of line 122.
fetchAfterProcessingUnguarded(st, raw, isCancelled) ==
    LET processedOutline == processOutlineItems(raw.value.items, 0)
    IN IF processedOutline.threw
       THEN IF isCancelled THEN st
            ELSE [st EXCEPT !.error = TRUE, !.isLoading = FALSE]
       ELSE [st EXCEPT !.outline = List(processedOutline.items),
                       !.isLoading = IF isCancelled THEN @ ELSE FALSE]

\* The continuation after `await processOutlineItems`, lines 116-134.
fetchAfterProcessing(st, raw, isCancelled) ==
    LET processedOutline == processOutlineItems(raw.value.items, 0)
    IN IF processedOutline.threw
       THEN IF isCancelled THEN st
            ELSE [st EXCEPT !.error = TRUE, !.isLoading = FALSE]
       ELSE IF isCancelled THEN st
       ELSE [st EXCEPT !.outline = List(processedOutline.items), !.isLoading = FALSE]

\* fetchAfterGetOutline without the finally block of lines 131-135.
fetchAfterGetOutlineNoFinally(st, raw, isCancelled) ==
    IF raw.rejects
    THEN [st |-> IF isCancelled THEN st ELSE [st EXCEPT !.error = TRUE],
          next |-> "done"]
    ELSE IF isCancelled THEN [st |-> st, next |-> "done"]
    ELSE IF raw.value.isNull \/ Len(raw.value.items) = 0
    THEN [st |-> [st EXCEPT !.outline = List(<< >>), !.isLoading = FALSE], next |-> "done"]
    ELSE [st |-> st, next |-> "processing"]

\* The continuation after `await pdfDocument.getOutline()`, lines 106-114
\* with the catch and finally blocks; next tells whether the function goes
\* on to processOutlineItems.
fetchAfterGetOutline(st, raw, isCancelled) ==
    IF raw.rejects
    THEN [st |-> IF isCancelled THEN st
                 ELSE [st EXCEPT !.error = TRUE, !.isLoading = FALSE],
          next |-> "done"]
    ELSE IF isCancelled THEN [st |-> st, next |-> "done"]
    ELSE IF raw.value.isNull \/ Len(raw.value.items) = 0
    THEN [st |-> [st EXCEPT !.outline = List(<< >>), !.isLoading = FALSE], next |-> "done"]
    ELSE [st |-> st, next |-> "processing"]

SetOutlineState(st) ==
    /\ outline' = st.outline
    /\ isLoading' = st.isLoading
    /\ error' = st.error

RaceResults ==
    {[rejects |-> TRUE, value |-> Null], [rejects |-> FALSE, value |-> Null]}
    \cup {[rejects |-> FALSE, value |-> List(o)] :
            o \in UNION {RawOutlines(n) : n \in 0..MaxRaceNodes}}

InitRace ==
    /\ totalPages = MaxPages
    /\ cacheSize = 1
    /\ maxRequests = 0
    /\ maxClears = 0
    /\ InitRefs
    /\ PanelIdle
    /\ CoordsIdle
    /\ NavIdle
    /\ DocIdle
    /\ RaceIdle
    /\ rawOutline \in RaceResults
    /\ outline = Null
    /\ isLoading = TRUE
    /\ error = FALSE
    /\ cancelled = FALSE
    /\ fetchPhase = "getOutline"

RaceFrame ==
    /\ UNCHANGED hookVars
    /\ UNCHANGED panelVars
    /\ UNCHANGED coordVars
    /\ UNCHANGED navVars
    /\ UNCHANGED docVars

\* getOutline of the current document settles.
RaceGetOutlineSettles ==
    /\ fetchPhase = "getOutline"
    /\ LET after == fetchAfterGetOutline(OutlineState, rawOutline, cancelled)
       IN SetOutlineState(after.st) /\ fetchPhase' = after.next
    /\ UNCHANGED <<rawOutline, cancelled>>
    /\ UNCHANGED raceVars
    /\ RaceFrame

\* processOutlineItems of the current document settles.
RaceProcessingSettles ==
    /\ fetchPhase = "processing"
    /\ SetOutlineState(fetchAfterProcessing(OutlineState, rawOutline, cancelled))
    /\ fetchPhase' = "done"
    /\ UNCHANGED <<rawOutline, cancelled>>
    /\ UNCHANGED raceVars
    /\ RaceFrame

\* getOutline of the previous document settles; the flag of its effect
\* run is set.
StaleGetOutlineSettles ==
    /\ stalePhase = "getOutline"
    /\ LET after == fetchAfterGetOutline(OutlineState, staleRaw, TRUE)
       IN /\ SetOutlineState(after.st)
          /\ stalePhase' = after.next
          /\ staleLast' = (after.next = "done" /\ fetchPhase = "done")
    /\ UNCHANGED <<rawOutline, cancelled, fetchPhase, staleRaw>>
    /\ RaceFrame

\* processOutlineItems of the previous document settles.
StaleProcessingSettles ==
    /\ stalePhase = "processing"
    /\ SetOutlineState(fetchAfterProcessing(OutlineState, staleRaw, TRUE))
    /\ stalePhase' = "done"
    /\ staleLast' = (fetchPhase = "done")
    /\ UNCHANGED <<rawOutline, cancelled, fetchPhase, staleRaw>>
    /\ RaceFrame

\* The hook is rendered with another pdfDocument: the cleanup of the
\* effect sets the flag of the running fetch (line 140) and the effect
\* runs again, fetchOutline calling setIsLoading(true) and setError(null)
\* before it waits for getOutline (lines 103-106).
ChangeOutlineDocument ==
    /\ stalePhase = "none"
    /\ ~cancelled
    /\ staleRaw' = rawOutline
    /\ stalePhase' = fetchPhase
    /\ rawOutline' \in RaceResults
    /\ fetchPhase' = "getOutline"
    /\ isLoading' = TRUE
    /\ error' = FALSE
    /\ UNCHANGED <<outline, cancelled, staleLast>>
    /\ RaceFrame

NextRace ==
    \/ RaceGetOutlineSettles
    \/ RaceProcessingSettles
    \/ StaleGetOutlineSettles
    \/ StaleProcessingSettles
    \/ ChangeOutlineDocument
    \/ CancelFetch

RaceSpec == InitRace /\ [][NextRace]_vars

NextOutline ==
    \/ GetOutlineSettles
    \/ ProcessingSettles
    \/ CancelFetch

OutlineSpec == InitOutline /\ [][NextOutline]_vars

\* ------------------------------------- the panel's items with the hook
\* The panel after its first render with MaxPanelPages pages, as LeftPanel
\* renders it: onLoad is the hook's loadThumbnail (line 693). The list is
\* not scrolled and the panel is not rendered with other props, so the
\* items stay mounted.
InitMounted ==
    /\ cacheSize \in 1..MaxCacheSize
    /\ totalPages = MaxPanelPages
    /\ maxRequests = MaxRequests
    /\ maxClears = MaxClears
    /\ InitRefs
    /\ currentPage = 0
    /\ panelTotalPages = MaxPanelPages
    /\ customRenderer = FALSE
    /\ scrollOffset = 0
    /\ items = RenderItems([p \in 1..MaxPanelPages |-> "none"], 0, MaxPanelPages, FALSE)
    /\ effectDeps = <<0, MaxPanelPages>>
    /\ scrollToIndexCalls = 0
    /\ scrollTarget = -1
    /\ onLoadCall = 0
    /\ OutlineIdle
    /\ CoordsIdle
    /\ NavIdle
    /\ RaceIdle
    /\ DocIdle

\* The observer callback of a mounted ThumbnailItem, lines 39-46, with the
\* call of loadThumbnail it makes through onLoad.
MountedObserverCallback(pageNumber) ==
    /\ pageNumber \in VisiblePages(scrollOffset, panelTotalPages)
    /\ items[pageNumber] = "observing"
    /\ items' = [items EXCEPT ![pageNumber] = "loaded"]
    /\ onLoadCall' = pageNumber
    /\ Commit(loadThumbnail(Refs, pageNumber))
    /\ UNCHANGED <<currentPage, panelTotalPages, customRenderer, scrollOffset, effectDeps,
                   scrollToIndexCalls, scrollTarget>>
    /\ UNCHANGED <<totalPages, cacheSize, maxRequests, maxClears, mounted>>
    /\ UNCHANGED outlineVars
    /\ UNCHANGED coordVars
    /\ UNCHANGED navVars
    /\ UNCHANGED raceVars
    /\ UNCHANGED docVars

MountedItemIntersects ==
    \E pageNumber \in 1..MaxPanelPages : MountedObserverCallback(pageNumber)

NextMounted ==
    \/ MountedItemIntersects
    \/ RenderResolved
    \/ RenderRejected
    \/ FlushTimer
    \/ ClearCache

\* Observers deliver their callbacks, started rasterizations settle and
\* set timers fire.
MountedSpec ==
    /\ InitMounted
    /\ [][NextMounted]_vars
    /\ \A pageNumber \in 1..MaxPanelPages : WF_vars(MountedObserverCallback(pageNumber))
    /\ WF_vars(RenderResolved \/ RenderRejected)
    /\ WF_vars(FlushTimer)

\* ------------------------------------------------- coordinate conversion
\* viewportToScaled: every pixel coordinate divided by the width or the
\* height of the unscaled page. With usePdfCoordinates the y values are
\* subtracted from the page height (origin at the bottom left), and y1 is
\* the smaller of the two.
viewportToScaled(rect, dimensions, usePdfCoordinates) ==
    LET right == RatAdd(rect.left, rect.width)
        bottom == RatAdd(rect.top, rect.height)
        y1 == IF usePdfCoordinates THEN RatSub(dimensions.height, bottom) ELSE rect.top
        y2 == IF usePdfCoordinates THEN RatSub(dimensions.height, rect.top) ELSE bottom
    IN [x1 |-> RatDiv(rect.left, dimensions.width),
        y1 |-> RatDiv(y1, dimensions.height),
        x2 |-> RatDiv(right, dimensions.width),
        y2 |-> RatDiv(y2, dimensions.height),
        width |-> RatDiv(rect.width, dimensions.width),
        height |-> RatDiv(rect.height, dimensions.height),
        pageNumber |-> rect.pageNumber,
        usePdfCoordinates |-> usePdfCoordinates]

\* scaledToViewport that takes y1 for the top whatever the origin.
scaledToViewportTopLeftOnly(scaled, dimensions, scale) ==
    LET width == RatMul(dimensions.width, scale)
        height == RatMul(dimensions.height, scale)
    IN [left |-> RatMul(scaled.x1, width),
        top |-> RatMul(scaled.y1, height),
        width |-> RatMul(RatSub(scaled.x2, scaled.x1), width),
        height |-> RatMul(RatSub(scaled.y2, scaled.y1), height),
        pageNumber |-> scaled.pageNumber]

\* scaledToViewport: the normalized coordinates multiplied by the page
\* dimensions times the scale; with usePdfCoordinates the top is measured
\* from the upper edge again.
scaledToViewport(scaled, dimensions, scale) ==
    LET width == RatMul(dimensions.width, scale)
        height == RatMul(dimensions.height, scale)
        top == IF scaled.usePdfCoordinates THEN RatSub(One, scaled.y2) ELSE scaled.y1
    IN [left |-> RatMul(scaled.x1, width),
        top |-> RatMul(top, height),
        width |-> RatMul(RatSub(scaled.x2, scaled.x1), width),
        height |-> RatMul(RatSub(scaled.y2, scaled.y1), height),
        pageNumber |-> scaled.pageNumber]

\* Page dimensions with zero width or height are refused.
ValidDimensions(dimensions) ==
    dimensions.width.num > 0 /\ dimensions.height.num > 0

HalfPixels == {Rat(k, 2) : k \in 0..(2 * MaxPageDim)}

InitCoords ==
    /\ totalPages = MaxPages
    /\ cacheSize = 1
    /\ maxRequests = 0
    /\ maxClears = 0
    /\ InitRefs
    /\ PanelIdle
    /\ OutlineIdle
    /\ DocIdle
    /\ RaceIdle
    /\ NavIdle
    /\ pageDimensions \in [width : {Rat(k, 1) : k \in 0..MaxPageDim},
                           height : {Rat(k, 1) : k \in 0..MaxPageDim}]
    /\ viewportRect \in [left : HalfPixels, top : HalfPixels, width : HalfPixels,
                         height : HalfPixels, pageNumber : {1}]
    /\ currentScale \in {Rat(k, 1) : k \in 1..MaxCoordScale}
    /\ scaledRect = NoScaled
    /\ restoredRect = NoRect
    /\ coordPhase = "viewport"

CoordFrame ==
    /\ UNCHANGED hookVars
    /\ UNCHANGED panelVars
    /\ UNCHANGED outlineVars
    /\ UNCHANGED docVars
    /\ UNCHANGED raceVars
    /\ UNCHANGED navVars
    /\ UNCHANGED <<pageDimensions, viewportRect, currentScale>>

\* The viewport rectangle is converted for saving.
ToScaled ==
    /\ coordPhase = "viewport"
    /\ IF ValidDimensions(pageDimensions)
       THEN \E usePdfCoordinates \in BOOLEAN :
               /\ scaledRect' = viewportToScaled(viewportRect, pageDimensions, usePdfCoordinates)
               /\ coordPhase' = "scaled"
       ELSE /\ coordPhase' = "InvalidPageDimensions"
            /\ UNCHANGED scaledRect
    /\ UNCHANGED restoredRect
    /\ CoordFrame

\* The saved rectangle is converted for rendering.
ToViewport ==
    /\ coordPhase = "scaled"
    /\ restoredRect' = scaledToViewport(scaledRect, pageDimensions, currentScale)
    /\ coordPhase' = "restored"
    /\ UNCHANGED scaledRect
    /\ CoordFrame

NextCoords ==
    \/ ToScaled
    \/ ToViewport

CoordSpec == InitCoords /\ [][NextCoords]_vars

\* ------------------------------------------------------------ properties
RECURSIVE SumUpTo(_, _)
SumUpTo(f, n) == IF n = 0 THEN 0 ELSE f[n] + SumUpTo(f, n - 1)

\* Number of rasterizations started and not yet settled.
InFlightCount == SumUpTo(inFlight, totalPages)

QueuedCount(queue, pageNumber) ==
    Cardinality({i \in 1..Len(queue) : queue[i] = pageNumber})

\* Outstanding render tasks of a page in refs r: queued or rendering.
Tasks(r, pageNumber) ==
    QueuedCount(r.renderQueueRef, pageNumber) + r.inFlight[pageNumber]

\* C1: at most MAX_CONCURRENT_RENDERS rasterizations are started and not
\* yet settled, and activeRendersRef is their number.
C1_ConcurrencyCeiling ==
    /\ InFlightCount <= MAX_CONCURRENT_RENDERS
    /\ activeRendersRef = InFlightCount

\* The ceiling is reached while a page waits in the queue.
C1_Witness ==
    /\ InFlightCount = MAX_CONCURRENT_RENDERS
    /\ Len(renderQueueRef) > 0

Queued(pageNumber) ==
    pageNumber <= totalPages /\ QueuedCount(renderQueueRef, pageNumber) > 0

Rendering(pageNumber) ==
    pageNumber <= totalPages /\ inFlight[pageNumber] > 0

\* The page's render has settled and handed its entry to queueUpdate:
\* Done (image data) or Failed (error).
Settled(pageNumber) ==
    /\ MapHas(pendingUpdatesRef, pageNumber)
    /\ MapGet(pendingUpdatesRef, pageNumber) \in
            {LoadedData(pageNumber), FailedData(pageNumber)}

\* C2: when every started rasterization eventually settles, every queued
\* page eventually leaves the queue and is rasterized, and every page being
\* rasterized eventually reaches Done or Failed.
C2_EventuallyRendered ==
    \A pageNumber \in 1..MaxPages :
        /\ Queued(pageNumber) ~> (~Queued(pageNumber) /\ Rendering(pageNumber))
        /\ Rendering(pageNumber) ~> Settled(pageNumber)

\* A page that had to wait in the queue has been rendered and is Done.
C2_Witness ==
    LET p == MAX_CONCURRENT_RENDERS + 1
    IN /\ backlog >= 1
       /\ requests = p
       /\ ~Queued(p) /\ ~Rendering(p)
       /\ Settled(p) /\ p \in loadedRef

\* C3: calls of loadThumbnail(p) repeated before p's render has settled,
\* with no clearCache in between, create exactly one render task for p, so
\* exactly one rasterization of p is started: a page gets at most one task
\* per request cycle, a second call right after the first adds no task, and
\* a call for a page whose request is pending adds no task, whether the
\* page is still queued or already rendering.
C3_SingleRasterization ==
    \A p \in Pages :
        LET once == loadThumbnail(Refs, p)
            twice == loadThumbnail(once, p)
        IN /\ cycleTasks[p] <= 1
           /\ once.cycleTasks[p] <= 1
           /\ twice.cycleTasks[p] = once.cycleTasks[p]
           /\ Tasks(twice, p) = Tasks(once, p)
           /\ p \in loadingRef =>
                /\ cycleTasks[p] = 1
                /\ Tasks(Refs, p) >= 1
                /\ Tasks(once, p) = Tasks(Refs, p)

\* One requested page is rendering and another is waiting in the queue.
C3_Witness ==
    \E p \in Pages, q \in Pages :
        /\ p \in loadingRef /\ inFlight[p] = 1 /\ cycleTasks[p] = 1
        /\ q \in loadingRef /\ QueuedCount(renderQueueRef, q) = 1 /\ cycleTasks[q] = 1

\* C4: every page has at most one outstanding render task: it is never
\* queued twice, never queued while rendering, never rendering twice.
C4_OneTaskPerPage ==
    \A p \in Pages : Tasks(Refs, p) <= 1

\* C5: renders start in the order of their requests: the page processQueue
\* starts is always the oldest waiting request.
C5_FifoStart ==
    /\ ~outOfOrder
    /\ enqOrder = renderQueueRef

\* Two pages have waited in the queue together and the older has started
\* while the younger still waits.
C5_Witness ==
    /\ backlog = 2
    /\ Len(renderQueueRef) = 1
    /\ InFlightCount = MAX_CONCURRENT_RENDERS

\* The entry of a page in a Map kept as a sequence, or the default entry.
EntryIn(m, pageNumber) ==
    IF MapHas(m, pageNumber) THEN MapGet(m, pageNumber) ELSE DefaultData(pageNumber)

\* The most recent entry produced for a page: the update waiting for the
\* next flush, else the entry of the thumbnails map, else the default.
Latest(r, pageNumber) ==
    IF MapHas(r.pendingUpdatesRef, pageNumber)
    THEN MapGet(r.pendingUpdatesRef, pageNumber)
    ELSE getThumbnail(r, pageNumber)

\* The effect on the other pages of one step in which page p's render fails.
FailureIsolated(p) ==
    /\ EntryIn(pendingUpdatesRef', p) = FailedData(p)
    /\ \A q \in Pages \ {p} :
          /\ MapHas(pendingUpdatesRef', q) = MapHas(pendingUpdatesRef, q)
          /\ EntryIn(pendingUpdatesRef', q) = EntryIn(pendingUpdatesRef, q)
    /\ thumbnails' = thumbnails
    /\ cacheOrderRef' = cacheOrderRef
    /\ loadedRef' = loadedRef
    /\ loadingRef' = loadingRef \ {p}
    \* the slot is released, and taken by the oldest waiting page if any
    /\ IF Len(renderQueueRef) = 0
       THEN /\ renderQueueRef' = renderQueueRef
            /\ activeRendersRef' = activeRendersRef - 1
            /\ inFlight' = [inFlight EXCEPT ![p] = @ - 1]
       ELSE /\ renderQueueRef' = Tail(renderQueueRef)
            /\ activeRendersRef' = activeRendersRef
            /\ inFlight' = [[inFlight EXCEPT ![p] = @ - 1]
                                EXCEPT ![Head(renderQueueRef)] = @ + 1]

\* C6: a rasterization failure of page p records the error on p's entry
\* only and releases p's slot; no other page's entry changes, no other page
\* is cancelled, the waiting pages keep their order and the oldest of them
\* takes the freed slot.
C6_FailureIsolated ==
    [][\A p \in Pages : RenderSettled(p, FALSE) => FailureIsolated(p)]_vars

\* The only render settled so far failed, and the page that waited behind
\* it is rendering next to the two renders still running.
C6_Witness ==
    /\ clears = 0 /\ mounted
    /\ backlog = 1
    /\ requests = MAX_CONCURRENT_RENDERS + 1
    /\ InFlightCount = MAX_CONCURRENT_RENDERS
    /\ \E p \in Pages :
          /\ Latest(Refs, p) = FailedData(p)
          /\ \A q \in Pages \ {p} :
                q <= MAX_CONCURRENT_RENDERS + 1 => Latest(Refs, q) = LoadingData(q)

\* C7: after page p has reached Failed, loadThumbnail(p) enqueues exactly
\* one new render task for p and sets its entry back to isLoading = true.
C7_FailedRetryable ==
    \A p \in Pages :
        Latest(Refs, p) = FailedData(p) =>
            LET r == loadThumbnail(Refs, p)
            IN /\ Tasks(r, p) = Tasks(Refs, p) + 1
               /\ Latest(r, p) = LoadingData(p)

\* C8: after a loaded page p has been evicted by LRU pressure, p is out of
\* the loaded set and loadThumbnail(p) enqueues exactly one new render task
\* for p.
C8_EvictedReloadable ==
    \A p \in evicted :
        /\ p \notin loadedRef
        /\ LET r == loadThumbnail(Refs, p)
           IN /\ Tasks(r, p) = Tasks(Refs, p) + 1
              /\ Latest(r, p) = LoadingData(p)

\* The thumbnails map holds exactly the pages of S, each with image data.
HoldsLoaded(S) ==
    /\ DOMAIN thumbnails = S
    /\ \A p \in S : thumbnails[p] = LoadedData(p)

AllSequentialDone ==
    /\ Len(completed) = totalPages
    /\ Len(pendingUpdatesRef) = 0

\* C9: with cache capacity N, once N + 5 distinct pages have been loaded
\* one after another and every update is flushed, the thumbnails map holds
\* exactly N entries, those of the N most recently completed pages; the 5
\* pages completed first are absent.
C9_KeepsMostRecent ==
    AllSequentialDone =>
        /\ Cardinality(DOMAIN thumbnails) = cacheSize
        /\ HoldsLoaded({completed[i] : i \in 6..totalPages})
        /\ \A i \in 1..5 : completed[i] \notin DOMAIN thumbnails

C9_Witness ==
    /\ AllSequentialDone
    /\ Cardinality(DOMAIN thumbnails) = cacheSize
    /\ Cardinality(evicted) = 5

\* C11: no page removed by the eviction loop of flushUpdates has a
\* rasterization started and not settled at that moment, also after
\* clearCache followed by new requests.
C11_NoEvictionMidRender == ~evictedMidRender

\* The refs and state the hook's code reads and writes, without the
\* history kept for the properties.
HookState(r) ==
    [thumbnails |-> r.thumbnails, loadingRef |-> r.loadingRef, loadedRef |-> r.loadedRef,
     cacheOrderRef |-> r.cacheOrderRef, renderQueueRef |-> r.renderQueueRef,
     activeRendersRef |-> r.activeRendersRef, isProcessingRef |-> r.isProcessingRef,
     pendingUpdatesRef |-> r.pendingUpdatesRef, flushTimeoutRef |-> r.flushTimeoutRef,
     timers |-> r.timers, inFlight |-> r.inFlight]

\* C12: getThumbnail(p) never triggers a load: it leaves the render queue,
\* the active-render count, the loading and loaded sets, the pending
\* updates, the LRU order and the thumbnails map as they are, and returns
\* the stored entry of p if the map has one, else the default entry
\* {pageNumber: p, dataUrl: null, isLoading: false}.
C12_GetThumbnailReadsOnly ==
    \A p \in Pages :
        LET call == getThumbnailCall(Refs, p)
        IN /\ HookState(call.refs) = HookState(Refs)
           /\ call.result = IF p \in DOMAIN thumbnails
                             THEN thumbnails[p]
                             ELSE [pageNumber |-> p, dataUrl |-> NoUrl,
                                   isLoading |-> FALSE, error |-> NoError]

\* One page is stored with image data while another page, requested and
\* rendering, is not yet in the map: getThumbnail answers with the stored
\* entry for the first and with the default entry for the second.
C12_Witness ==
    \E p \in Pages, q \in Pages :
        /\ getThumbnailCall(Refs, p).result = LoadedData(p)
        /\ q \notin DOMAIN thumbnails
        /\ q \in loadingRef /\ inFlight[q] > 0
        /\ getThumbnailCall(Refs, q).result = DefaultData(q)

\* The page's latest entry carries image data.
Done(pageNumber) == Latest(Refs, pageNumber) = LoadedData(pageNumber)

\* C13: while the hook is mounted, loadThumbnail(p) for a page that is
\* queued, rendering or Done changes nothing: render queue, active-render
\* count, loading and loaded sets, pending updates and flush timer stay as
\* they are and no rasterization starts.
C13_LoadNoOpWhenPending ==
    \A p \in Pages :
        (mounted /\ (Queued(p) \/ Rendering(p) \/ Done(p))) =>
            HookState(loadThumbnail(Refs, p)) = HookState(Refs)

\* The update reaches the map handed to setThumbnails in this step: the
\* new map holds it, or its page was evicted by the same updater.
Delivered(data) ==
    LET pageNumber == data.pageNumber
    IN \/ /\ pageNumber \in DOMAIN thumbnails'
          /\ thumbnails'[pageNumber] = data
       \/ /\ pageNumber \notin DOMAIN thumbnails'
          /\ pageNumber \notin Range(cacheOrderRef')
          /\ data = LoadedData(pageNumber) \/ pageNumber \in Range(cacheOrderRef)

\* C14: entry updates are batched. At most one flush timer is pending at
\* any time; while the hook is mounted every queued update has a pending
\* timer, and the firing of that timer hands all of them to one
\* setThumbnails updater and leaves none behind; the thumbnails map is
\* replaced only when a flush timer fires (or by clearCache), so there are
\* no more notifications than timers fired, however many pages complete
\* in the window.
C14_UpdatesBatched ==
    [][/\ timers' <= 1
       /\ (mounted' /\ Len(pendingUpdatesRef') > 0) => timers' = 1
       /\ thumbnails' # thumbnails => (FlushTimer \/ ClearCache)
       /\ (mounted /\ FlushTimer) =>
              /\ pendingUpdatesRef' = << >>
              /\ timers' = 0
              /\ \A i \in 1..Len(pendingUpdatesRef) : Delivered(pendingUpdatesRef[i])
      ]_vars

\* After an earlier flush, one pending timer holds the updates of three
\* pages, a completion among them.
C14_Witness ==
    /\ mounted
    /\ timers = 1
    /\ DOMAIN thumbnails # {}
    /\ Len(pendingUpdatesRef) >= MAX_CONCURRENT_RENDERS
    /\ \E i \in 1..Len(pendingUpdatesRef) :
          pendingUpdatesRef[i] = LoadedData(pendingUpdatesRef[i].pageNumber)
    /\ \E i \in 1..Len(pendingUpdatesRef) :
          pendingUpdatesRef[i] = LoadingData(pendingUpdatesRef[i].pageNumber)

\* C15: while the hook is mounted, the pending updates hold for each page
\* the update queued last (a later Done or Failed update replaces the
\* loading update of the same request), and once every flush timer has
\* fired nothing is pending and the thumbnails map holds, for every page
\* not evicted, the update queued last for it.
C15_LatestDelivered ==
    mounted =>
        /\ \A p \in Pages :
              MapHas(pendingUpdatesRef, p) => MapGet(pendingUpdatesRef, p) = lastQueued[p]
        /\ timers = 0 =>
              /\ Len(pendingUpdatesRef) = 0
              /\ \A p \in Pages :
                    lastQueued[p] # NoData =>
                        /\ p \in DOMAIN thumbnails
                        /\ thumbnails[p] = lastQueued[p]

\* Every timer has fired; the map holds the image of one page and the
\* error of another, and a third page has been evicted.
C15_Witness ==
    /\ mounted
    /\ clears = 0
    /\ timers = 0
    /\ evicted # {}
    /\ \E p \in Pages, q \in Pages :
          /\ lastQueued[p] = LoadedData(p) /\ getThumbnail(Refs, p) = LoadedData(p)
          /\ lastQueued[q] = FailedData(q) /\ getThumbnail(Refs, q) = FailedData(q)

\* C16: after the unmount cleanup has run no rasterization is started, no
\* flush timer is pending or set again and the thumbnails map gets no
\* further update, also when renders that were in flight at teardown
\* settle afterwards.
C16_TeardownStopsWork ==
    [][~mounted =>
          /\ \A p \in Pages : inFlight'[p] <= inFlight[p]
          /\ timers' = 0
          /\ thumbnails' = thumbnails
      ]_vars

\* The list item of the page is rendered and onLoad has not been called
\* for it since it entered the rendered range.
AwaitsRequest(pageNumber) == items[pageNumber] \in {"custom", "observing"}

\* C17: every list item that enters the rendered range (visible plus
\* overscan) leads to a loadThumbnail request for its page unless it
\* leaves the range first, with the default ThumbnailItem and with a
\* custom renderThumbnail alike; no request is made for an item outside
\* the range.
C17_RenderedItemsRequest ==
    /\ \A p \in 1..MaxPanelPages :
          AwaitsRequest(p) ~> (onLoadCall = p \/ items[p] = "none")
    /\ [][onLoadCall' # 0 => items[onLoadCall'] # "none"]_vars

\* C18: scrollToIndex(currentPage - 1, center) is called exactly once by a
\* render that is the first or that changes (currentPage, totalPages) to a
\* pair with 1 <= currentPage <= totalPages, and by no other step: a
\* render with the pair unchanged, such as the one a user scroll causes,
\* makes no call.
C18_ScrollOncePerChange ==
    [][LET changed == \/ effectDeps = << >>
                      \/ <<currentPage', panelTotalPages'>> # <<currentPage, panelTotalPages>>
           valid == 1 <= currentPage' /\ currentPage' <= panelTotalPages'
       IN IF changed /\ valid
          THEN scrollToIndexCalls' = 1 /\ scrollTarget' = currentPage' - 1
          ELSE scrollToIndexCalls' = 0 /\ scrollTarget' = -1
      ]_vars

\* The panel has been rendered again for a user scroll away from the
\* current page, and that render made no scrollToIndex call.
C18_Witness ==
    /\ ScrollGuard(currentPage, panelTotalPages)
    /\ effectDeps = <<currentPage, panelTotalPages>>
    /\ scrollOffset # scrollToIndex(currentPage - 1, panelTotalPages)
    /\ currentPage \notin VisiblePages(scrollOffset, panelTotalPages)
    /\ scrollToIndexCalls = 0
    /\ onLoadCall = 0

\* A node of an outline is addressed by its path: the sibling positions
\* from the top level down to the node.
RECURSIVE RawPaths(_)
RawPaths(rawItems) ==
    UNION {{<<i>>} \cup {<<i>> \o q : q \in RawPaths(rawItems[i].items)} :
            i \in 1..Len(rawItems)}

RECURSIVE RawAt(_, _)
RawAt(rawItems, path) ==
    IF Len(path) = 1 THEN rawItems[path[1]]
    ELSE RawAt(rawItems[path[1]].items, Tail(path))

RECURSIVE ProcessedPaths(_)
ProcessedPaths(processed) ==
    UNION {{<<i>>} \cup {<<i>> \o q : q \in ProcessedPaths(processed[i].children)} :
            i \in 1..Len(processed)}

RECURSIVE ProcessedAt(_, _)
ProcessedAt(processed, path) ==
    IF Len(path) = 1 THEN processed[path[1]]
    ELSE ProcessedAt(processed[path[1]].children, Tail(path))

\* The page the document gives for a destination, and the destinations
\* whose lookup fails.
PageOf(dest) ==
    IF dest = NamedDest("intro") THEN 2
    ELSE IF dest = ExplicitDest(2) THEN 3
    ELSE 1

LookupFails(dest) == dest \in {NamedDest("broken"), ExplicitDest(UnknownRef)}

FetchCompleted == fetchPhase = "done" /\ ~isLoading

\* C19: a node whose destination lookup fails (getDestination or
\* getPageIndex rejects) gets pageNumber 1 and the failure goes no
\* further: the processed outline has a node for every node of the raw
\* outline, each with the page number of its own lookup, and a load whose
\* getOutline resolved never sets the error state.
C19_LookupFailureContained ==
    ~rawOutline.rejects =>
        /\ error = FALSE
        /\ (FetchCompleted /\ Len(rawOutline.value.items) > 0) =>
              /\ ~outline.isNull
              /\ ProcessedPaths(outline.items) = RawPaths(rawOutline.value.items)
              /\ \A path \in RawPaths(rawOutline.value.items) :
                    LET dest == RawAt(rawOutline.value.items, path).dest
                        node == ProcessedAt(outline.items, path)
                    IN /\ node.pageNumber = PageOf(dest)
                       /\ LookupFails(dest) => node.pageNumber = 1

\* The three-level outline is loaded: the node whose named destination
\* rejects has page 1 while its parent, its sibling and its two children
\* have the pages of their own destinations.
C19_Witness ==
    /\ FetchCompleted
    /\ rawOutline.value.items = FullOutline
    /\ ~outline.isNull
    /\ error = FALSE
    /\ LookupFails(ProcessedAt(outline.items, <<1, 1>>).dest)
    /\ ProcessedAt(outline.items, <<1, 1>>).pageNumber = 1
    /\ ProcessedAt(outline.items, <<1>>).pageNumber = 2
    /\ ProcessedAt(outline.items, <<1, 2>>).pageNumber = 3
    /\ ProcessedAt(outline.items, <<1, 1, 1>>).pageNumber = 3
    /\ ProcessedAt(outline.items, <<1, 1, 2>>).pageNumber = 2

RECURSIVE NodeCount(_)
NodeCount(processed) ==
    IF processed = << >> THEN 0
    ELSE 1 + NodeCount(Head(processed).children) + NodeCount(Tail(processed))

\* Path p comes before path q in pre-order: p is a proper prefix of q, or
\* p turns to an earlier sibling where the two first differ.
PreOrderBefore(p, q) ==
    \/ /\ Len(p) < Len(q)
       /\ \A i \in 1..Len(p) : p[i] = q[i]
    \/ \E i \in 1..Len(p) :
          /\ i <= Len(q)
          /\ p[i] < q[i]
          /\ \A j \in 1..(i - 1) : p[j] = q[j]

\* C20: the list flattenOutline returns is as long as the tree has nodes
\* and is in pre-order: every node stands at the position its path has in
\* pre-order and is followed at once by the whole flattening of its
\* children.
C20_FlattenPreOrder ==
    ~outline.isNull =>
        LET paths == ProcessedPaths(outline.items)
            Rank(p) == Cardinality({q \in paths : PreOrderBefore(q, p)})
        IN /\ Len(flatOutline) = NodeCount(outline.items)
           /\ Len(flatOutline) = Cardinality(paths)
           /\ \A p \in paths :
                 LET node == ProcessedAt(outline.items, p)
                     below == flattenOutline(node.children)
                 IN /\ flatOutline[Rank(p) + 1] = node
                    /\ SubSeq(flatOutline, Rank(p) + 2, Rank(p) + 1 + Len(below)) = below

\* The three-level outline with two children per inner node is flattened
\* into its fourteen nodes.
C20_Witness ==
    /\ FetchCompleted
    /\ rawOutline.value.items = FullOutline
    /\ ~outline.isNull
    /\ Len(flatOutline) = NodeCount(outline.items)
    /\ Cardinality(ProcessedPaths(outline.items)) = Len(flatOutline)
    /\ flatOutline[2] = ProcessedAt(outline.items, <<1, 1>>)
    /\ flatOutline[Len(flatOutline)] = ProcessedAt(outline.items, <<2, 2, 2>>)

\* The raw outline of the same shape with every title changed and every
\* destination removed.
RECURSIVE Relabel(_)
Relabel(rawItems) ==
    [k \in 1..Len(rawItems) |->
        [title |-> "u", dest |-> NoDest, items |-> Relabel(rawItems[k].items)]]

\* The ids of the direct children at a parent path (<< >> for the top
\* level), in sibling order.
SiblingIds(processed, parent) ==
    LET siblings == IF parent = << >> THEN processed
                    ELSE ProcessedAt(processed, parent).children
    IN [k \in 1..Len(siblings) |-> siblings[k].id]

\* C21: the id of an outline node is a function of its level and its
\* sibling index only: the node at sibling index i of level l has the id
\* (l, i), the same outline with other titles and destinations gets the
\* same id at every position, and the ids of the children of one parent
\* (and of the top-level nodes) are pairwise distinct.
C21_IdByLevelAndIndex ==
    (FetchCompleted /\ ~outline.isNull /\ ~rawOutline.rejects /\ ~rawOutline.value.isNull) =>
        LET paths == ProcessedPaths(outline.items)
            other == processOutlineItems(Relabel(rawOutline.value.items), 0)
        IN /\ \A p \in paths :
                 ProcessedAt(outline.items, p).id = <<Len(p) - 1, p[Len(p)] - 1>>
           /\ ~other.threw
           /\ ProcessedPaths(other.items) = paths
           /\ \A p \in paths :
                 /\ ProcessedAt(other.items, p).id = ProcessedAt(outline.items, p).id
                 /\ ProcessedAt(other.items, p).title # ProcessedAt(outline.items, p).title
           /\ \A parent \in paths \cup {<< >>} :
                 LET ids == SiblingIds(outline.items, parent)
                 IN \A j, k \in 1..Len(ids) : j # k => ids[j] # ids[k]

\* The three-level outline is loaded: the two children of the first
\* top-level node have the ids (1, 0) and (1, 1), whatever their
\* destinations.
C21_Witness ==
    /\ FetchCompleted
    /\ rawOutline.value.items = FullOutline
    /\ ~outline.isNull
    /\ SiblingIds(outline.items, <<1>>) = << <<1, 0>>, <<1, 1>> >>
    /\ SiblingIds(outline.items, <<2, 2>>) = << <<2, 0>>, <<2, 1>> >>
    /\ ProcessedAt(outline.items, <<1, 1>>).dest # ProcessedAt(outline.items, <<1, 2>>).dest

\* The rectangle lies fully inside the page.
InsidePage(rect, dimensions) ==
    /\ RatLeq(RatAdd(rect.left, rect.width), dimensions.width)
    /\ RatLeq(RatAdd(rect.top, rect.height), dimensions.height)

\* a and b differ by no more than 1e-6.
Near(a, b) ==
    LET d == RatSub(a, b)
    IN RatLeq([num |-> Abs(d.num), den |-> d.den], Rat(1, 1000000))

\* C22: for page dimensions with positive width and height and a viewport
\* rectangle fully inside the page, the rectangle converted to scaled
\* coordinates and back to the viewport at scale 1.0 is the rectangle
\* again, within 1e-6 in every coordinate and on the same page.
C22_RoundTrip ==
    (coordPhase = "restored" /\ currentScale = One
        /\ ValidDimensions(pageDimensions) /\ InsidePage(viewportRect, pageDimensions)) =>
        /\ Near(restoredRect.left, viewportRect.left)
        /\ Near(restoredRect.top, viewportRect.top)
        /\ Near(restoredRect.width, viewportRect.width)
        /\ Near(restoredRect.height, viewportRect.height)
        /\ restoredRect.pageNumber = viewportRect.pageNumber

\* A rectangle off the page's corner, on a page that is not square, went
\* through the scaled form with the origin at the bottom left and came
\* back; its scaled y1 differs from its scaled top.
C22_Witness ==
    /\ coordPhase = "restored"
    /\ currentScale = One
    /\ pageDimensions = [width |-> Rat(1, 1), height |-> Rat(2, 1)]
    /\ viewportRect = [left |-> Rat(1, 2), top |-> Rat(1, 2), width |-> Rat(1, 2),
                       height |-> Rat(1, 1), pageNumber |-> 1]
    /\ scaledRect.usePdfCoordinates
    /\ scaledRect.y1 = Rat(1, 4)
    /\ scaledRect.y2 = Rat(3, 4)
    /\ restoredRect = viewportRect

IsLoadingShape(data) == data.isLoading /\ data.dataUrl = NoUrl /\ data.error = NoError
IsLoadedShape(data) == ~data.isLoading /\ data.dataUrl # NoUrl /\ data.error = NoError
IsFailedShape(data) == ~data.isLoading /\ data.dataUrl = NoUrl /\ data.error # NoError

\* C23: every entry of the thumbnails map is loading (isLoading, no image,
\* no error), loaded (not loading, image, no error) or failed (not
\* loading, no image, error), and is stored under its own page number; no
\* entry has both an image and an error.
C23_EntryShapes ==
    \A p \in DOMAIN thumbnails :
        LET data == thumbnails[p]
        IN /\ data.pageNumber = p
           /\ IsLoadingShape(data) \/ IsLoadedShape(data) \/ IsFailedShape(data)
           /\ ~(data.dataUrl # NoUrl /\ data.error # NoError)

\* The map holds a loading, a loaded and a failed entry at once, after
\* some page was requested a second time.
C23_Witness ==
    \E a, b, c \in DOMAIN thumbnails :
        /\ IsLoadingShape(thumbnails[a])
        /\ IsLoadedShape(thumbnails[b])
        /\ IsFailedShape(thumbnails[c])
        /\ requests > seen

\* C24: between events a waiting page never coexists with a free slot:
\* if renderQueueRef is not empty then MAX_CONCURRENT_RENDERS
\* rasterizations are in flight and activeRendersRef counts them; and
\* isProcessingRef is never left set, so no call of processQueue is
\* turned away while a page waits.
C24_WorkConserving ==
    /\ ~isProcessingRef
    /\ Len(renderQueueRef) > 0 =>
          /\ activeRendersRef = MAX_CONCURRENT_RENDERS
          /\ InFlightCount = MAX_CONCURRENT_RENDERS

\* A settled render found two pages waiting and started the older one:
\* one page still waits and all slots are taken again.
C24_Witness ==
    /\ backlog = 2
    /\ Len(renderQueueRef) = 1
    /\ activeRendersRef = MAX_CONCURRENT_RENDERS
    /\ InFlightCount = MAX_CONCURRENT_RENDERS
    /\ ~isProcessingRef

\* The pages whose render completed exactly once, and the position of
\* page p in a sequence that holds it once.
CompletedOnce == {p \in Pages : QueuedCount(completed, p) = 1}
IndexOf(s, p) == CHOOSE i \in 1..Len(s) : s[i] = p

\* C25: for two pages each rendered once, a completing before b: when
\* both are in cacheOrderRef a stands before b, and b is not evicted while
\* a is still resident.
C25_LruByCompletion ==
    \A a, b \in CompletedOnce :
        IndexOf(completed, a) < IndexOf(completed, b) =>
            /\ (a \in Range(cacheOrderRef) /\ b \in Range(cacheOrderRef)) =>
                  IndexOf(cacheOrderRef, a) < IndexOf(cacheOrderRef, b)
            /\ b \in evicted => a \notin Range(cacheOrderRef)

\* The zero-based page indices the destinations of the document resolve
\* to; the other destinations are absent, resolve to nothing or fail.
ResolvedIndex(dest) ==
    IF dest = NamedDest("intro") THEN {1}
    ELSE IF dest = ExplicitDest(2) THEN {2}
    ELSE {}

\* C26: the processed outline has the shape of the raw outline: a node
\* for every raw node at the same position, with the raw node's title and
\* destination and as many children, siblings in the same order; the
\* level of a node is its depth (0 for a root); a node whose destination
\* resolves to page index k has pageNumber k + 1, and a node with no
\* destination or one that resolves to nothing has pageNumber 1.
C26_ShapeLevelPage ==
    (FetchCompleted /\ ~outline.isNull /\ ~rawOutline.rejects /\ ~rawOutline.value.isNull) =>
        /\ Len(outline.items) = Len(rawOutline.value.items)
        /\ ProcessedPaths(outline.items) = RawPaths(rawOutline.value.items)
        /\ \A path \in RawPaths(rawOutline.value.items) :
              LET raw == RawAt(rawOutline.value.items, path)
                  node == ProcessedAt(outline.items, path)
              IN /\ node.title = raw.title
                 /\ node.dest = raw.dest
                 /\ Len(node.children) = Len(raw.items)
                 /\ node.level = Len(path) - 1
                 /\ \A k \in ResolvedIndex(raw.dest) : node.pageNumber = k + 1
                 /\ ResolvedIndex(raw.dest) = {} => node.pageNumber = 1

\* The three-level outline is loaded: a root whose named destination
\* resolves to index 1 has page 2 and level 0, a leaf with no destination
\* and a leaf whose name resolves to nothing have page 1 and level 2, and
\* the second child of the second root keeps its two leaves in order.
C26_Witness ==
    /\ FetchCompleted
    /\ rawOutline.value.items = FullOutline
    /\ ~outline.isNull
    /\ ProcessedAt(outline.items, <<1>>).pageNumber = 2
    /\ ProcessedAt(outline.items, <<1>>).level = 0
    /\ ProcessedAt(outline.items, <<1, 2, 2>>).dest = NoDest
    /\ ProcessedAt(outline.items, <<1, 2, 2>>).pageNumber = 1
    /\ ProcessedAt(outline.items, <<2, 1, 2>>).dest = NamedDest("missing")
    /\ ProcessedAt(outline.items, <<2, 1, 2>>).pageNumber = 1
    /\ ProcessedAt(outline.items, <<2, 1, 2>>).level = 2
    /\ ProcessedAt(outline.items, <<1, 1, 1>>).dest = ExplicitDest(2)
    /\ ProcessedAt(outline.items, <<1, 1, 2>>).dest = NamedDest("intro")

\* C27: cacheOrderRef holds no page twice and only pages of loadedRef, so
\* that loadThumbnail of a resident page returns at its loadedRef test
\* and the page is neither waiting for nor in a rasterization.
C27_OrderWithinLoaded ==
    /\ \A i, j \in 1..Len(cacheOrderRef) : i # j => cacheOrderRef[i] # cacheOrderRef[j]
    /\ Range(cacheOrderRef) \subseteq loadedRef
    /\ \A p \in Range(cacheOrderRef) :
          inFlight[p] = 0 /\ p \notin Range(renderQueueRef)

\* C28: once clearCache has been called and while no loadThumbnail
\* follows it, the thumbnails map, cacheOrderRef and loadedRef are empty,
\* whatever was pending, queued or in flight when it was called.
C28_ClearDurable ==
    clears > 0 =>
        /\ DOMAIN thumbnails = {}
        /\ cacheOrderRef = << >>
        /\ loadedRef = {}

\* The pages waiting in the queue or in a rasterization.
QueuedOrRendering == Range(renderQueueRef) \cup {p \in Pages : inFlight[p] > 0}

\* The pages with work outstanding: queued, rendering, or with an update
\* waiting in the batch.
Outstanding ==
    QueuedOrRendering
    \cup {pendingUpdatesRef[i].pageNumber : i \in 1..Len(pendingUpdatesRef)}

FailedEntries == {p \in DOMAIN thumbnails : IsFailedShape(thumbnails[p])}

C30_UpdaterRepeatable ==
    Len(pendingUpdatesRef) > 0 =>
        LET once == updater(Refs, thumbnails, cacheSize)
            twice == updater(once, thumbnails, cacheSize)
        IN /\ twice.thumbnails = once.thumbnails
           /\ twice.cacheOrderRef = once.cacheOrderRef
           /\ twice.loadedRef = once.loadedRef
           /\ \A i \in 1..Len(pendingUpdatesRef) :
                 LET data == pendingUpdatesRef[i]
                 IN data.pageNumber \in DOMAIN once.thumbnails =>
                       /\ data.pageNumber \in DOMAIN twice.thumbnails
                       /\ twice.thumbnails[data.pageNumber] = data

\* C31: every entry of the thumbnails map that has image data shows the
\* page of the current document, and loadThumbnail of a page whose image
\* comes from an earlier document starts or queues a render of it.
C31_ImagesOfCurrentDocument ==
    /\ \A p \in DOMAIN thumbnails :
          thumbnails[p].dataUrl # NoUrl => imageFrom[p] = pdfDocument
    /\ \A p \in Pages :
          (imageFrom[p] # 0 /\ imageFrom[p] # pdfDocument /\ Tasks(Refs, p) = 0) =>
              Tasks(loadThumbnail(Refs, p), p) = 1

\* The ThumbnailItem of the page is mounted and in the visible area.
Displayed(p) ==
    items[p] \in {"observing", "loaded"} /\ p \in VisiblePages(scrollOffset, panelTotalPages)

\* C32: for a page whose ThumbnailItem stays mounted and visible, the
\* entry of the page eventually is loaded or failed, and the page does not
\* stay for ever without an entry and without an outstanding request: an
\* eviction or clearCache is followed by a new request.
C32_DisplayedPagesServed ==
    \A p \in 1..MaxPanelPages :
        /\ Displayed(p) ~> (p \in DOMAIN thumbnails /\ ~thumbnails[p].isLoading)
        /\ []<>(~Displayed(p) \/ p \in DOMAIN thumbnails \/ p \in Outstanding)

\* The outline the hook holds once the fetch of a document whose
\* getOutline resolved with raw has completed.
OutlineOf(raw) ==
    IF raw.value.isNull \/ Len(raw.value.items) = 0 THEN List(<< >>)
    ELSE List(processOutlineItems(raw.value.items, 0).items)

\* C33: a fetch whose effect was cleaned up (the document changed or the
\* hook unmounted) writes neither outline nor error nor isLoading when it
\* goes on, and once the fetches of the previous and of the current
\* document have both ended, in either order, the outline is the one of
\* the current document.
C33_NoStaleWrite ==
    /\ [][((stalePhase' # stalePhase /\ stalePhase # "none")
            \/ (fetchPhase' # fetchPhase /\ cancelled))
           => UNCHANGED <<outline, error, isLoading>>]_vars
    /\ [](  (stalePhase = "done" /\ fetchPhase = "done" /\ ~cancelled /\ ~rawOutline.rejects)
           => (outline = OutlineOf(rawOutline) /\ ~isLoading /\ ~error))

\* Both documents have an outline, the two differ, and the fetch of the
\* previous document ended after the one of the current document: the
\* hook holds the outline of the current document.
C33_Witness ==
    /\ staleLast
    /\ stalePhase = "done"
    /\ fetchPhase = "done"
    /\ ~cancelled
    /\ ~staleRaw.rejects /\ ~staleRaw.value.isNull /\ Len(staleRaw.value.items) > 0
    /\ ~rawOutline.rejects /\ ~rawOutline.value.isNull /\ Len(rawOutline.value.items) > 0
    /\ OutlineOf(staleRaw) # OutlineOf(rawOutline)
    /\ outline = OutlineOf(rawOutline)

\* C34: the step that ends a fetch whose effect was not cleaned up leaves
\* isLoading false and is one of three outcomes, by what getOutline gave:
\* null or an empty list, the outline is the empty list and no error is
\* set; a non-empty list, the outline is the processed tree and no error
\* is set; a rejection, error is set and the outline is the one the hook
\* held before. hasOutline is true exactly when the outline is a list
\* with at least one item.
C34_FetchOutcomes ==
    /\ [][(fetchPhase # "done" /\ fetchPhase' = "done" /\ ~cancelled) =>
            /\ ~isLoading'
            /\ IF rawOutline.rejects
               THEN error' /\ outline' = outline
               ELSE IF rawOutline.value.isNull \/ Len(rawOutline.value.items) = 0
               THEN ~error' /\ outline' = List(<< >>)
               ELSE /\ ~error'
                    /\ outline' = List(processOutlineItems(rawOutline.value.items, 0).items)
                    /\ Len(outline'.items) = Len(rawOutline.value.items)]_vars
    /\ [](hasOutline <=> (outline # Null /\ outline # List(<< >>)))

\* getOutline of the second document rejected after the fetch of the
\* first had ended with an outline: error is set, isLoading is false
\* and the hook still holds the outline of the first document.
C34_Witness ==
    /\ fetchPhase = "done"
    /\ stalePhase = "done"
    /\ ~cancelled
    /\ rawOutline.rejects
    /\ error
    /\ ~isLoading
    /\ hasOutline
    /\ outline = OutlineOf(staleRaw)

\* C35: a call goToPage(n) with a viewer present, 1 <= n <= pagesCount
\* and scrollPageIntoView not throwing calls scrollPageIntoView once and
\* leaves currentPage as it was; a call with n out of range or without a
\* viewer does not call the viewer, sets currentPage to n if the page
\* element is found in the DOM, and changes nothing if it is not.
C35_GoToPage ==
    [][goToPageCalls' # goToPageCalls =>
        LET n == lastGoToPage'.pageNumber
            inRange == isViewer(viewer) /\ 1 <= n /\ n <= viewer.pagesCount
        IN /\ (inRange /\ ~lastGoToPage'.throws) =>
                /\ scrollPageIntoViewCalls' = scrollPageIntoViewCalls + 1
                /\ navCurrentPage' = navCurrentPage
                /\ scrollIntoViewCalls' = scrollIntoViewCalls
           /\ ~inRange =>
                /\ scrollPageIntoViewCalls' = scrollPageIntoViewCalls
                /\ IF lastGoToPage'.found
                   THEN navCurrentPage' = n
                   ELSE UNCHANGED <<navCurrentPage, scrollIntoViewCalls, viewer, syncedRef>>
      ]_vars

\* goToPage was called once, with a page in range of the viewer that is
\* not the current page, and the viewer scrolled: currentPage is still
\* the page it was.
C35_Witness ==
    /\ goToPageCalls = 1
    /\ isViewer(viewer)
    /\ lastGoToPage.pageNumber \in 1..viewer.pagesCount
    /\ ~lastGoToPage.throws
    /\ scrollPageIntoViewCalls = 1
    /\ scrollIntoViewCalls = 0
    /\ navCurrentPage # lastGoToPage.pageNumber

\* C36: once the fetch has completed, no two entries of the flattened
\* outline have the same id, whatever the shape of the raw outline.
C36_DistinctIds ==
    FetchCompleted =>
        \A i, j \in 1..Len(flatOutline) :
            i # j => flatOutline[i].id # flatOutline[j].id

LoadedEntries == {p \in DOMAIN thumbnails : thumbnails[p].dataUrl # NoUrl}

\* C10: the thumbnails map never holds more than cacheSize entries with
\* image data, and cacheOrderRef is never longer than cacheSize.
C10_CacheBounded ==
    /\ Cardinality(LoadedEntries) <= cacheSize
    /\ Len(cacheOrderRef) <= cacheSize

\* The cache is full after an eviction.
C10_Witness ==
    /\ evicted # {}
    /\ Cardinality(LoadedEntries) = cacheSize
    /\ Len(cacheOrderRef) = cacheSize

====
